---- MODULE Spec2Model ----
(***************************************************************************)
(* Model of the pattern-tiling core of the canvas library:                 *)
(*   shapes.py          Shape / MultiShape and the catalog of motifs       *)
(*   gashura_helper.py  fill_polygon_with_pattern and the three grid walks *)
(*   canvas_units.py    the millimeter / meter conversions of a unit       *)
(*   canvas.py          the clipped draw functions, Canvas.add, Canvas.draw *)
(*   pdf_via_cairo.py   CanvasCairo.draw_table                             *)
(*                                                                         *)
(* Clipping.  The clipped draw functions convert their floats to the       *)
(* integers of a binary grid and back.  There a float is a whole number of *)
(* 1 / (Unit * ClipperScale): a decimal such as 0.1 is a float that is not *)
(* on the binary grid, as in the program.                                  *)
(*                                                                         *)
(* Angles.  Shape.draw is modelled for the right angles, whose sine and    *)
(* cosine are whole numbers (the program's cos(90) is 6.1e-17, not 0).     *)
(* Shape.__rotate__ on its own is also modelled in double precision, for   *)
(* points with whole coordinates: there a float is a whole number plus a   *)
(* multiple of 2 ** -53 / HalfUlp, rounded to the doubles next to it.      *)
(*                                                                         *)
(* Numbers.  The program computes with floats.  The model computes with    *)
(* fixed-point integers: a length v (in mm or in m) is the integer         *)
(* v * Unit.  Unit is chosen so that every pitch the model uses, its half  *)
(* (0.5 * dx_m) and its image under the 1:100, 1:500, 1:1000 and 1:2000    *)
(* scales are whole numbers of ticks, so the arithmetic below is exact.    *)
(*                                                                         *)
(* Strings.  The rock names are Russian words in the source; they are      *)
(* transliterated here (the original is given where the name is defined).  *)
(***************************************************************************)
EXTENDS Integers, Sequences, FiniteSets, TLC

VARIABLES
    cursor,   \* MultiShape.iterator of every catalog MultiShape: index of the next member
    sink,     \* the Shape.draw calls observed so far (since the last fill request began)
    call,     \* arguments of the last MultiShape.draw call made directly
    pass,     \* the tiling passes of the concurrent scenario
    last,     \* the last fill request and how it ended
    prev,     \* the fill request before it, with the calls it made
    drawn,    \* the last Shape.draw call made directly and how it ended
    units,    \* a scaled unit, the unit linked to it and the last conversion made
    clip,     \* the last call of a clipped draw function: its polygon, points and keywords
    turn,     \* the last rotation there and back: its points, angle and results
    canvas,   \* a Canvas: its registry of units, the units' fields and the calls of its last draw()
    catalog,  \* the attributes of the catalog's shapes (shapes.py: Shape / MultiShape instances)
    table     \* a table of the caller: its rows, the list now and the calls of its draws

vars == <<cursor, sink, call, pass, last, prev, drawn, units, clip, turn, canvas, catalog, table>>

None == "None"

\* ticks per millimeter (and per meter)
Unit == 4 * 5

----------------------------------------------------------------------------
(* Python arithmetic *)

\* float %: the result has the sign of the divisor (b # 0)
PyMod(a, b) == IF b > 0 THEN a % b ELSE 0 - ((0 - a) % (0 - b))

\* float //: floor division (b # 0)
PyFloorDiv(a, b) == (a - PyMod(a, b)) \div b

\* fixed-point product and quotient of two lengths / factors
FMul(a, b) == (a * b) \div Unit
FDiv(a, b) == (a * Unit) \div b

----------------------------------------------------------------------------
(* shapes.py: the catalog *)

\* class attributes dx_mm, dy_mm of the Shape subclasses (Shape: 3, 3)
ShapePitch ==
    [ Glina |-> <<3, 3>>, Torf |-> <<3, 3>>, Il |-> <<3, 3>>,
      Galechnik |-> <<3, 3>>, Valunnik |-> <<5, 5>>, Gravyi |-> <<2, 2>>,
      Sand |-> <<2, 2>>, Dresva |-> <<2, 2>>, Sheben |-> <<3, 3>>,
      Andesit |-> <<3, 3>>, Dacit |-> <<3, 3>>, Basalt |-> <<3, 3>>,
      Riolite_left |-> <<3, 3>>, Riolite_right |-> <<3, 3>>,
      Riolite_up |-> <<3, 3>>, Riolite_down |-> <<3, 3>>,
      Granite |-> <<3, 3>>, Diorite |-> <<3, 3>>,
      Spai |-> <<2, 2>>, Riolite |-> <<3, 3>>, Andesibasalt |-> <<3, 3>>,
      Andesidacit |-> <<3, 3>>, AndesibasaltTuff |-> <<3, 3>>,
      Granodiorite |-> <<3, 3>> ]

\* MultiShape subclasses: the class attribute shapes
shapes ==
    [ Spai |-> <<"Sheben", "Gravyi">>,
      Riolite |-> <<"Riolite_left", "Riolite_up", "Riolite_right", "Riolite_down">>,
      Andesibasalt |-> <<"Andesit", "Basalt">>,
      Andesidacit |-> <<"Andesit", "Dacit">>,
      AndesibasaltTuff |-> <<"Andesit", "Sand", "Basalt", "Sand">>,
      Granodiorite |-> <<"Granite", "Diorite">> ]

MultiShapes == DOMAIN shapes

IsMultiShape(s) == s \in MultiShapes

dx_mm(s) == ShapePitch[s][1] * Unit
dy_mm(s) == ShapePitch[s][2] * Unit

----------------------------------------------------------------------------
(* shapes.py: MultiShape *)

\* MultiShape.__init__: iterator = cycle(self.shapes), nothing consumed yet
MultiShapeInit == [ms \in MultiShapes |-> 0]

\* next(cycle(shapes)) with c members consumed since the last wrap: the member returned
CycleMemberSkipFirst(ms, c) == shapes[ms][((c + 1) % Len(shapes[ms])) + 1]
CycleMember(ms, c) == shapes[ms][c + 1]

\* ... and the position of the iterator after n calls of next()
CycleAdvanceStuck(ms, c, n) == c
CycleAdvanceTwice(ms, c, n) == (c + 2 * n) % Len(shapes[ms])
CycleAdvance(ms, c, n) == (c + n) % Len(shapes[ms])

\* the arguments of a draw call: position, angle, canvas_unit, polygon, color, scale
DrawArgs(position, angle, canvas_unit, polygon, color, scale) ==
    [position |-> position, angle |-> angle, canvas_unit |-> canvas_unit,
     polygon |-> polygon, color |-> color, scale |-> scale]

\* a call of Shape.draw on the leaf shape `shape`; `via` names the MultiShape
\* instance that dispatched it (None for a direct call)
ShapeDrawCall(shape, via, a) ==
    [op |-> "Shape.draw", shape |-> shape, via |-> via, position |-> a.position, angle |-> a.angle,
     canvas_unit |-> a.canvas_unit, polygon |-> a.polygon, color |-> a.color,
     scale |-> a.scale]

\* what the member receives from MultiShape.draw
ForwardedArgsRescaled(a) == [a EXCEPT !.scale = a.scale * a.scale]
ForwardedArgs(a) == a

\* MultiShape.draw on the catalog instance ms with iterators cur:
\* the iterators afterwards and the Shape.draw calls made
MultiShapeDraw(ms, cur, a) ==
    [cursor |-> [cur EXCEPT ![ms] = CycleAdvance(ms, cur[ms], 1)],
     calls  |-> <<ShapeDrawCall(CycleMember(ms, cur[ms]), ms, ForwardedArgs(a))>>]

----------------------------------------------------------------------------
(* shapes.py: the attributes of the shapes of the catalog *)

\* the class attribute size of the Shape subclasses (Shape: 1)
ShapeSize ==
    [ Glina |-> 2 * Unit, Torf |-> Unit, Il |-> 2 * Unit,
      Galechnik |-> Unit, Valunnik |-> 2 * Unit, Gravyi |-> Unit \div 2,
      Sand |-> Unit \div 10, Dresva |-> Unit \div 2, Sheben |-> Unit,
      Andesit |-> Unit, Dacit |-> Unit, Basalt |-> Unit,
      Riolite_left |-> Unit, Riolite_right |-> Unit,
      Riolite_up |-> Unit, Riolite_down |-> Unit,
      Granite |-> Unit, Diorite |-> Unit,
      Spai |-> Unit, Riolite |-> Unit, Andesibasalt |-> Unit,
      Andesidacit |-> Unit, AndesibasaltTuff |-> Unit, Granodiorite |-> Unit ]

\* the class whose points attribute a Shape subclass has (Valunnik and Gravyi
\* inherit Galechnik's, Sheben inherits Dresva's)
PointsClass ==
    [ Glina |-> "Glina", Torf |-> "Torf", Il |-> "Il",
      Galechnik |-> "Galechnik", Valunnik |-> "Galechnik", Gravyi |-> "Galechnik",
      Sand |-> "Sand", Dresva |-> "Dresva", Sheben |-> "Dresva",
      Andesit |-> "Andesit", Dacit |-> "Dacit", Basalt |-> "Basalt",
      Riolite_left |-> "Riolite_left", Riolite_right |-> "Riolite_right",
      Riolite_up |-> "Riolite_up", Riolite_down |-> "Riolite_down",
      Granite |-> "Granite", Diorite |-> "Diorite" ]

PlainShapes == DOMAIN PointsClass

\* Shape.line_width = 0.1
line_width == Unit \div 10

\* the tuple that Shape.__resize__ makes: the points of a class times a size
Resized(class, size) == [of |-> class, times |-> size]

\* Shape.__init__: self.points = tuple(self.__resize__()); the other
\* attributes are read from the class
ShapeInit(shape) ==
    [points |-> Resized(PointsClass[shape], ShapeSize[shape]), shapes |-> <<>>,
     size |-> ShapeSize[shape], dx_mm |-> dx_mm(shape), dy_mm |-> dy_mm(shape),
     line_width |-> line_width]

\* a MultiShape instance: __init__ sets the iterator only (it is the cursor),
\* so the instance has no points; its members are the class attribute shapes
MultiShapeFields(ms) ==
    [points |-> Resized(None, 0), shapes |-> shapes[ms],
     size |-> ShapeSize[ms], dx_mm |-> dx_mm(ms), dy_mm |-> dy_mm(ms),
     line_width |-> line_width]

\* the instances of the catalog after construction, by class
Catalog ==
    [s \in DOMAIN ShapePitch |-> IF IsMultiShape(s) THEN MultiShapeFields(s) ELSE ShapeInit(s)]

\* the attributes of a Shape after self.draw(...): draw binds the rotated,
\* scaled and translated points to a local name and assigns no attribute
ShapeAfterDrawKeepsScaled(self, a) ==
    [self EXCEPT !.points = Resized(self.points.of, self.points.times * (a.scale + 1))]
ShapeAfterDraw(self, a) == self

\* the attributes of a MultiShape after self.draw(...): next(self.iterator)
\* moves the iterator and nothing else
MultiShapeAfterDraw(self, a) == self

\* the instances after one Shape.draw call, dispatched by the MultiShape
\* call.via when that is a catalog MultiShape
CatalogAfterCall(cat, c) ==
    LET one == [cat EXCEPT ![c.shape] = ShapeAfterDraw(cat[c.shape], c)]
    IN  IF c.via \in MultiShapes
        THEN [one EXCEPT ![c.via] = MultiShapeAfterDraw(one[c.via], c)]
        ELSE one

\* the instances after the calls lo..hi, made one after the other: those
\* after the first half of the calls, then the second half applied to them
RECURSIVE CatalogAfterRange(_, _, _, _)
CatalogAfterRange(cat, calls, lo, hi) ==
    IF lo > hi THEN cat
    ELSE IF lo = hi THEN CatalogAfterCall(cat, calls[lo])
    ELSE LET mid == (lo + hi) \div 2
         IN  CHOOSE after \in { CatalogAfterRange(half, calls, mid + 1, hi) :
                                    half \in {CatalogAfterRange(cat, calls, lo, mid)} } : TRUE

\* calls on a canvas unit touch no shape
IsShapeDraw(c) == c.op = "Shape.draw"

CatalogAfter(cat, calls) ==
    LET draws == SelectSeq(calls, IsShapeDraw)
    IN  CatalogAfterRange(cat, draws, 1, Len(draws))

----------------------------------------------------------------------------
(* canvas_units.py: the units a fill can be asked to draw on *)

\* CanvasUnitScaled.__post_init__: 1000 / scale, as a fixed-point factor
ScaleMm(scale) == FDiv(1000 * Unit, scale * Unit)

\* a CanvasUnitFloating subclass: plain millimeter space
FloatingUnit == [kind |-> "CanvasUnitFloating"]

\* a CanvasUnitLinked whose parent has the scales 1:sh and 1:sv
\* (CanvasUnitLinked.__post_init__ copies the parent's millimeter factors)
LinkedUnit(sh, sv) ==
    [kind |-> "CanvasUnitLinked",
     scale_horizontal_mm |-> ScaleMm(sh),
     scale_vertical_mm |-> ScaleMm(sv)]

\* isinstance(canvas_unit, CanvasUnitLinked)
IsLinked(canvas_unit) == canvas_unit.kind = "CanvasUnitLinked"

\* CanvasUnitScaled.mm_to_m_horizontal / mm_to_m_vertical
mm_to_m_horizontal(canvas_unit, mm) == FDiv(mm, canvas_unit.scale_horizontal_mm)
mm_to_m_vertical(canvas_unit, mm) == FDiv(mm, canvas_unit.scale_vertical_mm)

----------------------------------------------------------------------------
(* gashura_helper.py: the catalog of rocks *)

\* rock_shapes; the keys are, in the order of the source: galechnik, valunnik,
\* gravij, il, pesok, glina, dresva, shheben', spaj, andezit, dacit, bazal't,
\* andezibazal't, andezidacit, andezibazal't tuf, riolit, granodiorit, diorit,
\* granit (written in Cyrillic there)
rock_shapes ==
    [ galechnik |-> "Galechnik", valunnik |-> "Valunnik", gravij |-> "Gravyi",
      il |-> "Il", pesok |-> "Sand", glina |-> "Glina", dresva |-> "Dresva",
      shheben |-> "Sheben", spaj |-> "Spai", andezit |-> "Andesit",
      dacit |-> "Dacit", bazalt |-> "Basalt", andezibazalt |-> "Andesibasalt",
      andezidacit |-> "Andesidacit", andezibazalt_tuf |-> "AndesibasaltTuff",
      riolit |-> "Riolite", granodiorit |-> "Granodiorite",
      diorit |-> "Diorite", granit |-> "Granite" ]

\* the rock names fill_polygon_with_pattern compares with: torf, prs,
\* korennye porody, slancy, perehodnyj sloj (treshhinovatyj korennik)
VerticalRocks == {"torf", "prs"}
DiagonalRocks == {"korennye_porody", "slancy", "perehodnyj_sloj"}

\* the outcome of a fill: the iterators afterwards, the draw calls made, the
\* number of diagnostics printed and the exception raised (None: returned normally)
Outcome(cur, calls, diag, err) ==
    [cursor |-> cur, calls |-> calls, diag |-> diag, err |-> err]

----------------------------------------------------------------------------
(* gashura_helper.py: fill_polygon_with_lines_vertical *)

\* width=0.1
LineWidth == Unit \div 10

\* the call draw_lines_m_inside_polygon / draw_lines_inside_polygon makes for one line
LineCall(canvas_unit, polygon, line, line_type, color) ==
    [op |-> IF IsLinked(canvas_unit) THEN "draw_lines_m_inside_polygon"
                                     ELSE "draw_lines_inside_polygon",
     polygon |-> polygon, points |-> line, width |-> LineWidth,
     line_type |-> line_type, color |-> color]

\* while x < x1: x += dx_m; line = ((x, y0), (x, y1))
RECURSIVE VerticalWalkFromStart(_, _, _)
VerticalWalkFromStart(x, x1, dx_m) ==
    IF x <= x1 THEN <<x>> \o VerticalWalkFromStart(x + dx_m, x1, dx_m) ELSE <<>>
RECURSIVE VerticalWalk(_, _, _)
VerticalWalk(x, x1, dx_m) ==
    IF x < x1 THEN <<x + dx_m>> \o VerticalWalk(x + dx_m, x1, dx_m) ELSE <<>>

\* x = x0 - x0 % dx_m
GridStartCeil(x0, dx_m) == x0 + PyMod(0 - x0, dx_m)
GridStart(x0, dx_m) == x0 - PyMod(x0, dx_m)

VerticalPitch(canvas_unit, dx_mm_) ==
    IF IsLinked(canvas_unit) THEN mm_to_m_horizontal(canvas_unit, dx_mm_) ELSE dx_mm_

\* the abscissas of the lines, in the order they are drawn
VerticalAbscissas(canvas_unit, bounding_box, dx_mm_) ==
    LET dx_m == VerticalPitch(canvas_unit, dx_mm_)
    IN  VerticalWalk(GridStart(bounding_box[1], dx_m), bounding_box[2], dx_m)

fill_polygon_with_lines_vertical(canvas_unit, polygon, bounding_box, dx_mm_) ==
    LET xs == VerticalAbscissas(canvas_unit, bounding_box, dx_mm_)
        y0 == bounding_box[3]
        y1 == bounding_box[4]
    IN  [i \in 1..Len(xs) |->
            LineCall(canvas_unit, polygon, <<<<xs[i], y0>>, <<xs[i], y1>>>>, None, None)]

----------------------------------------------------------------------------
(* gashura_helper.py: fill_polygon_with_lines_diagonal *)

\* the number of rows of the walk "while y - 50 * dy < y1: ...; y += dy_m"
\* (dy_m > 0): the least n >= 0 with y + n * dy_m - 50 * dy >= y1
DiagonalRows(y, y1, dy, dy_m) ==
    LET span == y1 + 50 * dy - y
    IN  IF span <= 0 THEN 0 ELSE (span + dy_m - 1) \div dy_m

\* the rows of the walk, one line per row, the i-th at y + (i - 1) * dy_m; when
\* alter_linetype is set the flag is toggled before each row, so the i-th row
\* has the initial flag toggled i times; otherwise linetype or LineType.SOLID
DiagonalWalkToggleAfter(y, y1, dy, dy_m, x_left, x_right, alter_linetype, line_type_flag) ==
    [i \in 1..DiagonalRows(y, y1, dy, dy_m) |->
        LET yi == y + (i - 1) * dy_m
            flag == IF i % 2 = 0 THEN ~line_type_flag ELSE line_type_flag
        IN  [line |-> <<<<x_left, yi - 50 * dy>>, <<x_right, yi + 50 * dy>>>>,
             line_type |-> IF alter_linetype
                           THEN (IF flag THEN "DASH" ELSE "SOLID")
                           ELSE "SOLID"]]
DiagonalWalk(y, y1, dy, dy_m, x_left, x_right, alter_linetype, line_type_flag) ==
    [i \in 1..DiagonalRows(y, y1, dy, dy_m) |->
        LET yi == y + (i - 1) * dy_m
            flag == IF i % 2 = 1 THEN ~line_type_flag ELSE line_type_flag
        IN  [line |-> <<<<x_left, yi - 50 * dy>>, <<x_right, yi + 50 * dy>>>>,
             line_type |-> IF alter_linetype
                           THEN (IF flag THEN "DASH" ELSE "SOLID")
                           ELSE "SOLID"]]

\* the lines of a diagonal fill with their line types, in the order they are drawn
DiagonalLines(canvas_unit, bounding_box, alter_linetype, d_mm) ==
    LET x0 == bounding_box[1]
        x1 == bounding_box[2]
        y0 == bounding_box[3]
        y1 == bounding_box[4]
        dx == x1 - x0
        dy == IF IsLinked(canvas_unit) THEN dx \div 10 ELSE dx
        dy_mm_ == d_mm
        dx_mm_ == d_mm \div 2
        dy_m == IF IsLinked(canvas_unit) THEN mm_to_m_vertical(canvas_unit, dy_mm_) ELSE dy_mm_
        dx_m == IF IsLinked(canvas_unit) THEN mm_to_m_horizontal(canvas_unit, dx_mm_) ELSE dx_mm_
        y0_ == y0 - dy
        y == y0_ - PyMod(y0_, dy_m)
        xa == x0 - PyMod(x0, dx_m)
        x == IF PyMod(PyFloorDiv(xa, dx_m), 2) # 0 THEN xa + dx_m ELSE xa
        line_type_flag == ~(PyMod(PyFloorDiv(x, dx_m), 4) # 0)
    IN  DiagonalWalk(y, y1, dy, dy_m, x - 50 * dx, x + 50 * dx, alter_linetype, line_type_flag)

fill_polygon_with_lines_diagonal(canvas_unit, polygon, bounding_box, alter_linetype, d_mm) ==
    LET rows == DiagonalLines(canvas_unit, bounding_box, alter_linetype, d_mm)
    IN  [i \in 1..Len(rows) |->
            LineCall(canvas_unit, polygon, rows[i].line, rows[i].line_type, None)]

----------------------------------------------------------------------------
(* gashura_helper.py: fill_polygon_with_shapes *)

\* the dip functions a caller supplies: a function of the point returning a slope
\* (in ticks: 0.1 is Unit \div 10) or None
DipFunctions == {"dip_none", "dip_zero", "dip_tenth", "dip_by_x"}

\* the result is <<>> for None and <<slope>> otherwise
dip_function(f, p) ==
    CASE f = "dip_none" -> <<>>
      [] f = "dip_zero" -> <<0>>
      [] f = "dip_tenth" -> <<Unit \div 10>>
      [] f = "dip_by_x" -> IF p[1] >= 0 THEN <<Unit \div 10>> ELSE <<0 - (Unit \div 10)>>

\* math.degrees(math.atan(t)) for the tangents the dip functions above produce
AtanDegrees(t) ==
    CASE t = 0 -> 0
      [] t = Unit -> 45
      [] t = 0 - Unit -> 0 - 45

\* dip = dip_function((x, y)) or 0; angle = math.degrees(math.atan(dip * 10))
DipAngleUnscaled(f, p) ==
    LET d == dip_function(f, p)
        dip == IF d = <<>> THEN 0 ELSE d[1]
    IN  AtanDegrees(dip)
DipAngleNegated(f, p) ==
    LET d == dip_function(f, p)
        dip == IF d = <<>> THEN 0 ELSE d[1]
    IN  AtanDegrees(0 - dip * 10)
DipAngle(f, p) ==
    LET d == dip_function(f, p)
        dip == IF d = <<>> THEN 0 ELSE d[1]
    IN  AtanDegrees(dip * 10)

\* the shape a motif fill draws: a catalog entry, or the MultiShape built for
\* a rock and its aggregates
CatalogShape(name) ==
    [composite |-> FALSE, name |-> name, members |-> <<>>,
     dx_mm |-> dx_mm(name), dy_mm |-> dy_mm(name)]

\* create_shape_for_rock_and_aggregates(shape, aggregate_shapes): a new MultiShape
\* cycling over the rock's shape and then the aggregates' shapes, with the
\* rock's pitch
create_shape_for_rock_and_aggregates(shape, aggregate_shapes) ==
    [composite |-> TRUE, name |-> "composite", members |-> <<shape>> \o aggregate_shapes,
     dx_mm |-> dx_mm(shape), dy_mm |-> dy_mm(shape)]

\* draw on a catalog shape: Shape.draw for a plain shape, MultiShape.draw otherwise
CatalogDraw(name, cur, via, a) ==
    IF IsMultiShape(name)
    THEN MultiShapeDraw(name, cur, a)
    ELSE [cursor |-> cur, calls |-> <<ShapeDrawCall(name, via, a)>>]

\* shape.draw(...) on the shape of the fill; own is the iterator of the
\* MultiShape built for this fill (unused for a catalog shape)
ShapeValueDraw(shape, cur, own, a) ==
    IF shape.composite
    THEN LET r == CatalogDraw(shape.members[own + 1], cur, "composite", a)
         IN  [cursor |-> r.cursor, own |-> (own + 1) % Len(shape.members), calls |-> r.calls]
    ELSE LET r == CatalogDraw(shape.name, cur, None, a)
         IN  [cursor |-> r.cursor, own |-> own, calls |-> r.calls]

\* while x < x1 + dx_m: draw at (x, y); x += dx_m
RECURSIVE RowWalk(_, _, _, _)
RowWalk(x, y, xlim, dx_m) ==
    IF x < xlim THEN <<<<x, y>>>> \o RowWalk(x + dx_m, y, xlim, dx_m) ELSE <<>>

\* x = x0; if shift_x: x += 0.5 * dx_m
RowStartNoShift(x0, dx_m, shift_x) == x0
RowStartFullShift(x0, dx_m, shift_x) == IF shift_x THEN x0 + dx_m ELSE x0
RowStart(x0, dx_m, shift_x) == IF shift_x THEN x0 + dx_m \div 2 ELSE x0

\* while y < y1 + dy_m: one row; shift_x = not shift_x; y += dy_m
RECURSIVE GridWalk(_, _, _, _, _, _, _)
GridWalk(y, shift_x, x0, xlim, ylim, dx_m, dy_m) ==
    IF y < ylim
    THEN RowWalk(RowStart(x0, dx_m, shift_x), y, xlim, dx_m)
         \o GridWalk(y + dy_m, ~shift_x, x0, xlim, ylim, dx_m, dy_m)
    ELSE <<>>

\* the pitch of a motif fill: dx_m, dy_m after dx_m *= scale * offset_factor
MotifPitch(canvas_unit, shape, scale, offset_factor) ==
    LET dx_m == IF IsLinked(canvas_unit) THEN mm_to_m_horizontal(canvas_unit, shape.dx_mm)
                                         ELSE shape.dx_mm
        dy_m == IF IsLinked(canvas_unit) THEN mm_to_m_vertical(canvas_unit, shape.dy_mm)
                                         ELSE shape.dy_mm
    IN  <<dx_m * scale * offset_factor, dy_m * scale * offset_factor>>

\* y0 = y0 - y0 % (2 * dy_m)
RowGridStartSinglePitch(y0, dy_m) == y0 - PyMod(y0, dy_m)
RowGridStart(y0, dy_m) == y0 - PyMod(y0, 2 * dy_m)

\* the grid points of a motif fill, in the order they are visited (pitch > 0)
GridPoints(bounding_box, dx_m, dy_m) ==
    LET y0 == RowGridStart(bounding_box[3], dy_m)
        x0 == GridStart(bounding_box[1], dx_m)
    IN  GridWalk(y0, FALSE, x0, bounding_box[2] + dx_m, bounding_box[4] + dy_m, dx_m, dy_m)

\* the number of the first n draws of a fill with `shape` that are draws on
\* the catalog MultiShape ms
DrawsOn(ms, shape, n) ==
    IF shape.composite
    THEN Cardinality({j \in 1..n : shape.members[((j - 1) % Len(shape.members)) + 1] = ms})
    ELSE IF shape.name = ms THEN n ELSE 0

\* the iterators of the catalog after the first n draws of a fill that began with cur
IteratorsAfter(shape, cur, n) ==
    [ms \in MultiShapes |-> CycleAdvance(ms, cur[ms], DrawsOn(ms, shape, n))]

\* the iterator of the MultiShape built for the fill after its first n draws
OwnAfter(shape, n) == IF shape.composite THEN n % Len(shape.members) ELSE 0

\* the loop body at every grid point, in order:
\*   dip = dip_function((x, y)) or 0; angle = ...; shape.draw((x, y), angle, ...)
\* the i-th draw finds the iterators as the first i - 1 draws left them
DrawGrid(shape, pts, cur, canvas_unit, polygon, dip, color, scale) ==
    Outcome(IteratorsAfter(shape, cur, Len(pts)),
            [i \in 1..Len(pts) |->
                  ShapeValueDraw(shape, IteratorsAfter(shape, cur, i - 1),
                                 OwnAfter(shape, i - 1),
                                 DrawArgs(pts[i], DipAngle(dip, pts[i]), canvas_unit,
                                          polygon, color, scale)).calls[1]],
            0, None)

fill_polygon_with_shapes(cur, canvas_unit, polygon, bounding_box, dip, shape, color, scale, offset_factor) ==
    LET pitch == MotifPitch(canvas_unit, shape, scale, offset_factor)
    IN  IF pitch[1] = 0 \/ pitch[2] = 0
        THEN \* y0 % (2 * dy_m) with a zero pitch
             Outcome(cur, <<>>, 0, "ZeroDivisionError")
        ELSE IF pitch[1] < 0
        THEN \* a negative pitch walks away from the limits: the walk never ends
             \* once the outer loop is entered
             IF RowGridStart(bounding_box[3], pitch[2]) < bounding_box[4] + pitch[2]
             THEN Outcome(cur, <<>>, 0, "nontermination")
             ELSE Outcome(cur, <<>>, 0, None)
        ELSE DrawGrid(shape, GridPoints(bounding_box, pitch[1], pitch[2]),
                      cur, canvas_unit, polygon, dip, color, scale)

----------------------------------------------------------------------------
(* gashura_helper.py: fill_polygon_with_pattern *)

\* the aggregate argument: None, one name (a str) or a list of names
NoAggregate == [tag |-> "None", value |-> <<>>]
AggregateStr(name) == [tag |-> "str", value |-> <<name>>]
AggregateList(names) == [tag |-> "list", value |-> names]

\* if aggregate: (None, "" and [] are false)
AggregateGiven(aggregate) ==
    /\ aggregate.tag # "None"
    /\ aggregate.value # <<>>
    /\ (aggregate.tag = "str" => aggregate.value[1] # "")

\* if isinstance(aggregate, str): aggregate = [aggregate]
AggregateNames(aggregate) == aggregate.value

\* a fill request: the arguments of fill_polygon_with_pattern
Request(canvas_unit, rock, polygon, bounding_box, dip, aggregate, color, scale, offset_factor) ==
    [canvas_unit |-> canvas_unit, rock |-> rock, polygon |-> polygon,
     bounding_box |-> bounding_box, dip_function |-> dip, aggregate |-> aggregate,
     color |-> color, scale |-> scale, offset_factor |-> offset_factor]

\* rock in rock_shapes
InCatalog(rock) == rock \in DOMAIN rock_shapes

\* the branch taken for a rock that is not in rock_shapes:
\* print(f"Can't find shape for {rock}"); return
UnknownRockRaises(cur) == Outcome(cur, <<>>, 0, "KeyError")
UnknownRock(cur) == Outcome(cur, <<>>, 1, None)

\* the branch taken for an aggregate that is not in rock_shapes: return
UnknownAggregatePrints(cur) == Outcome(cur, <<>>, 1, None)
UnknownAggregate(cur) == Outcome(cur, <<>>, 0, None)

\* the shape of a motif fill: rock_shapes[rock], or the MultiShape made of it
\* and the aggregates
MotifShape(q) ==
    IF AggregateGiven(q.aggregate)
    THEN LET names == AggregateNames(q.aggregate)
         IN  create_shape_for_rock_and_aggregates(
                 rock_shapes[q.rock], [i \in 1..Len(names) |-> rock_shapes[names[i]]])
    ELSE CatalogShape(rock_shapes[q.rock])

fill_polygon_with_pattern_vertical_only(cur, q) ==
    Outcome(cur, fill_polygon_with_lines_vertical(
                     q.canvas_unit, q.polygon, q.bounding_box, 2 * Unit), 0, None)
fill_polygon_with_pattern(cur, q) ==
    CASE q.rock = "torf" ->
            Outcome(cur, fill_polygon_with_lines_vertical(
                             q.canvas_unit, q.polygon, q.bounding_box, 2 * Unit), 0, None)
      [] q.rock = "prs" ->
            Outcome(cur, fill_polygon_with_lines_vertical(
                             q.canvas_unit, q.polygon, q.bounding_box, 1 * Unit), 0, None)
      [] q.rock = "korennye_porody" ->
            Outcome(cur, fill_polygon_with_lines_diagonal(
                             q.canvas_unit, q.polygon, q.bounding_box, TRUE, 3 * Unit), 0, None)
      [] q.rock \in {"slancy", "perehodnyj_sloj"} ->
            Outcome(cur, fill_polygon_with_lines_diagonal(
                             q.canvas_unit, q.polygon, q.bounding_box, FALSE, 2 * Unit), 0, None)
      [] OTHER ->
            IF ~InCatalog(q.rock)
            THEN UnknownRock(cur)
            ELSE IF /\ AggregateGiven(q.aggregate)
                    /\ \E i \in 1..Len(AggregateNames(q.aggregate)) :
                           ~InCatalog(AggregateNames(q.aggregate)[i])
            THEN UnknownAggregate(cur)
            ELSE fill_polygon_with_shapes(cur, q.canvas_unit, q.polygon, q.bounding_box,
                                          q.dip_function, MotifShape(q), q.color, q.scale,
                                          q.offset_factor)

----------------------------------------------------------------------------
(* canvas_units.py: the scale context of a unit *)

\* a CanvasUnitScaled with the scales 1:sh and 1:sv, the offsets (xo, yo) in
\* meters and the given origin, after __post_init__
CanvasUnitScaled(sh, sv, xo, yo, origin) ==
    [kind |-> "CanvasUnitScaled",
     scale_horizontal |-> sh, scale_vertical |-> sv,
     scale_horizontal_mm |-> ScaleMm(sh), scale_vertical_mm |-> ScaleMm(sv),
     x_offset_m |-> xo, y_offset_m |-> yo, origin |-> origin]

\* CanvasUnitLinked.__post_init__: the fields are set from linked_cu, and
\* scale_vertical is set from linked_cu.scale_horizontal
CanvasUnitLinked(linked_cu) ==
    [kind |-> "CanvasUnitLinked",
     scale_horizontal |-> linked_cu.scale_horizontal,
     scale_vertical |-> linked_cu.scale_horizontal,
     scale_horizontal_mm |-> linked_cu.scale_horizontal_mm,
     scale_vertical_mm |-> linked_cu.scale_vertical_mm,
     x_offset_m |-> linked_cu.x_offset_m, y_offset_m |-> linked_cu.y_offset_m,
     origin |-> linked_cu.origin]

\* CanvasUnitScaled.scale(x, y): meters to millimeters
unit_scale(canvas_unit, p) ==
    <<FMul(canvas_unit.scale_horizontal_mm, p[1] + canvas_unit.x_offset_m),
      FMul(canvas_unit.scale_vertical_mm, p[2] + canvas_unit.y_offset_m)>>

\* CanvasUnitScaled.m_to_mm_horizontal / m_to_mm_vertical
m_to_mm_by_vertical_factor(canvas_unit, m) == FMul(m, canvas_unit.scale_vertical_mm)
m_to_mm_horizontal(canvas_unit, m) == FMul(m, canvas_unit.scale_horizontal_mm)
m_to_mm_vertical(canvas_unit, m) == FMul(m, canvas_unit.scale_vertical_mm)

\* the four round trips: the value in between and the value that comes back
RoundTrip(canvas_unit, trip, v) ==
    CASE trip = "mm_m_mm_horizontal" ->
            LET m == mm_to_m_horizontal(canvas_unit, v)
            IN  [mid |-> m, back |-> m_to_mm_horizontal(canvas_unit, m)]
      [] trip = "mm_m_mm_vertical" ->
            LET m == mm_to_m_vertical(canvas_unit, v)
            IN  [mid |-> m, back |-> m_to_mm_vertical(canvas_unit, m)]
      [] trip = "m_mm_m_horizontal" ->
            LET mm == m_to_mm_horizontal(canvas_unit, v)
            IN  [mid |-> mm, back |-> mm_to_m_horizontal(canvas_unit, mm)]
      [] trip = "m_mm_m_vertical" ->
            LET mm == m_to_mm_vertical(canvas_unit, v)
            IN  [mid |-> mm, back |-> mm_to_m_vertical(canvas_unit, mm)]

\* the class default of origin (None, None): the unit was not placed yet
NoOrigin == <<>>

\* an assignment to attributes of the parent after the linked unit was made:
\* the linked unit holds the values it copied
AfterParentChangeLive(u, parent, op) ==
    [u EXCEPT !.parent = parent, !.op = op,
              !.linked = IF u.made THEN CanvasUnitLinked(parent) ELSE u.linked]
AfterParentChange(u, parent, op) == [u EXCEPT !.parent = parent, !.op = op]

----------------------------------------------------------------------------
(* shapes.py: Shape.draw *)

\* Shape.points after Shape.__init__ (the class's points times its size)
ShapePoints(shape) ==
    CASE shape = "Glina" -> <<<<0 - Unit, 0>>, <<Unit, 0>>>>
      [] shape = "Il" ->
            <<<<0 - Unit, 0>>, <<0 - (Unit \div 2), Unit \div 5>>,
              <<Unit \div 2, 0 - (Unit \div 5)>>, <<Unit, 0>>>>
      [] shape = "Sand" ->
            <<<<Unit \div 10, 0>>, <<0, Unit \div 10>>, <<0 - (Unit \div 10), 0>>,
              <<0, 0 - (Unit \div 10)>>, <<Unit \div 10, 0>>>>

\* math.sin and math.cos of an angle in degrees
Sin(angle) == CASE angle = 0 -> 0 [] angle = 90 -> 1 [] angle = 180 -> 0 [] angle = 0 - 90 -> 0 - 1
Cos(angle) == CASE angle = 0 -> 1 [] angle = 90 -> 0 [] angle = 180 -> 0 - 1 [] angle = 0 - 90 -> 0

\* Shape.__rotate__
rotate(pts, angle) ==
    [i \in 1..Len(pts) |->
        <<pts[i][1] * Cos(angle) - pts[i][2] * Sin(angle),
          pts[i][1] * Sin(angle) + pts[i][2] * Cos(angle)>>]

\* Shape.__scale__
scale_points(pts, k) == [i \in 1..Len(pts) |-> <<pts[i][1] * k, pts[i][2] * k>>]

\* Shape.__translate__
translate(pts, position) ==
    [i \in 1..Len(pts) |-> <<pts[i][1] + position[1], pts[i][2] + position[2]>>]

\* Shape.scale_back
scale_back(pts, canvas_unit) == [i \in 1..Len(pts) |-> unit_scale(canvas_unit, pts[i])]

\* the polygon a caller passes under a name ("Empty" is the empty tuple)
PolygonArg(name) ==
    CASE name = "Empty" -> <<>>
      [] name = "Square" ->
            <<<<0, 0>>, <<10 * Unit, 0>>, <<10 * Unit, 10 * Unit>>, <<0, 10 * Unit>>>>
      [] name = "Small" ->
            <<<<0, 0>>, <<4 * Unit, 0>>, <<4 * Unit, 4 * Unit>>, <<0, 4 * Unit>>>>

\* the position Shape.draw translates to: converted by the unit's scale() when
\* the unit is a CanvasUnitLinked
TargetPositionUnconverted(canvas_unit, position) == position
TargetPosition(canvas_unit, position) ==
    IF IsLinked(canvas_unit) THEN unit_scale(canvas_unit, position) ELSE position

\* points = rotate, then scale, then translate
TransformTranslateFirst(shape, angle, k, position) ==
    scale_points(rotate(translate(ShapePoints(shape), position), angle), k)
Transform(shape, angle, k, position) ==
    translate(scale_points(rotate(ShapePoints(shape), angle), k), position)

\* Shape.draw(position, angle, canvas_unit, polygon, color, scale): the exception
\* raised (None: returned normally) and the calls made on the canvas unit.
\* For a CanvasUnitLinked, scale_back iterates over the polygon, which raises
\* TypeError when the polygon is None.
ShapeDraw(shape, a) ==
    IF IsLinked(a.canvas_unit) /\ a.polygon = None
    THEN [err |-> "TypeError", calls |-> <<>>]
    ELSE LET polygon == IF a.polygon = None THEN <<>>
                        ELSE IF IsLinked(a.canvas_unit)
                             THEN scale_back(PolygonArg(a.polygon), a.canvas_unit)
                             ELSE PolygonArg(a.polygon)
             pts == Transform(shape, a.angle, a.scale,
                              TargetPosition(a.canvas_unit, a.position))
         IN  [err |-> None,
              calls |-> <<[op |-> IF polygon # <<>> THEN "draw_lines_inside_polygon"
                                                    ELSE "draw_lines",
                           polygon |-> polygon, points |-> pts,
                           width |-> line_width * a.scale, color |-> a.color]>>]

----------------------------------------------------------------------------
(* shapes.py: Shape.__rotate__ in double precision *)

\* 2 ** -53, the distance from 1.0 to the double below it, in the units the
\* small part of a double is counted in
HalfUlp == 10000

\* a double <<n, d>> is the whole number n plus d / HalfUlp * 2 ** -53
Double(n) == <<n, 0>>
DoublePoints(pts) == [i \in 1..Len(pts) |-> <<Double(pts[i][1]), Double(pts[i][2])>>]

\* math.sin(math.radians(angle)) and math.cos(math.radians(angle)):
\* cos(radians(90)) is 6.123233995736766e-17, sin(radians(180)) is
\* 1.2246467991473532e-16, cos(radians(270)) is -1.8369701987210297e-16
SinDouble(angle) ==
    CASE angle = 0 -> <<0, 0>>
      [] angle = 90 -> <<1, 0>>
      [] angle = 0 - 90 -> <<0 - 1, 0>>
      [] angle = 180 -> <<0, 11031>>
      [] angle = 0 - 180 -> <<0, 0 - 11031>>
      [] angle = 270 -> <<0 - 1, 0>>
      [] angle = 0 - 270 -> <<1, 0>>
CosDouble(angle) ==
    CASE angle = 0 -> <<1, 0>>
      [] angle \in {90, 0 - 90} -> <<0, 5515>>
      [] angle \in {180, 0 - 180} -> <<0 - 1, 0>>
      [] angle \in {270, 0 - 270} -> <<0, 0 - 16546>>

\* the greatest power of two that is at most a (a >= 1)
RECURSIVE PowerBelow(_)
PowerBelow(a) == IF a < 2 THEN 1 ELSE 2 * PowerBelow(a \div 2)

Abs(n) == IF n >= 0 THEN n ELSE 0 - n

\* the distance between the doubles next to the whole number n, on the side
\* away from zero (away = TRUE) or towards zero
Spacing(n, away) ==
    IF away \/ Abs(n) # PowerBelow(Abs(n)) THEN 2 * HalfUlp * PowerBelow(Abs(n))
    ELSE HalfUlp * PowerBelow(Abs(n))

\* m rounded to the nearest multiple of s, a tie to the even multiple (m >= 0)
NearestMultiple(m, s) ==
    LET q == m \div s
        r == m % s
    IN  IF 2 * r > s \/ (2 * r = s /\ q % 2 = 1) THEN (q + 1) * s ELSE q * s

\* the double nearest to n + d: a small number (n = 0) is a double itself
RoundDouble(v) ==
    IF v[1] = 0 \/ v[2] = 0 THEN v
    ELSE LET away == (v[1] > 0) = (v[2] > 0)
             e == NearestMultiple(Abs(v[2]), Spacing(v[1], away))
         IN  <<v[1], IF v[2] > 0 THEN e ELSE 0 - e>>

\* x * y, x + y and -x in doubles (the product of two small parts is below
\* every rounding step and is left out)
MulDouble(x, y) == RoundDouble(<<x[1] * y[1], x[1] * y[2] + y[1] * x[2]>>)
AddDouble(x, y) == RoundDouble(<<x[1] + y[1], x[2] + y[2]>>)
NegDouble(x) == <<0 - x[1], 0 - x[2]>>

\* Shape.__rotate__(points, angle) on doubles
rotate_double_transposed(pts, angle) ==
    [i \in 1..Len(pts) |->
        <<AddDouble(MulDouble(pts[i][1], SinDouble(angle)), MulDouble(pts[i][2], CosDouble(angle))),
          AddDouble(MulDouble(pts[i][1], CosDouble(angle)),
                    NegDouble(MulDouble(pts[i][2], SinDouble(angle))))>>]
rotate_double(pts, angle) ==
    [i \in 1..Len(pts) |->
        <<AddDouble(MulDouble(pts[i][1], CosDouble(angle)),
                    NegDouble(MulDouble(pts[i][2], SinDouble(angle)))),
          AddDouble(MulDouble(pts[i][1], SinDouble(angle)), MulDouble(pts[i][2], CosDouble(angle)))>>]

----------------------------------------------------------------------------
(* canvas.py: clip_lines_with_polygon *)

\* the integers per unit of the clipping grid.  The library's default is
\* 2 ** 31; a smaller power of two keeps the products within the range of the
\* model's integers, and the decimals that fall on the grid are the same.
ClipperScale == 2 ^ 10

\* a float given in ticks, as a whole number of 1 / (Unit * ClipperScale)
Float(n) == n * ClipperScale
FloatPoints(pts) == [i \in 1..Len(pts) |-> <<Float(pts[i][1]), Float(pts[i][2])>>]

\* float to integer: the fraction is dropped
ToClipper(v) == IF v >= 0 THEN v \div Unit ELSE 0 - ((0 - v) \div Unit)

\* pyclipper.scale_to_clipper(points) / pyclipper.scale_from_clipper(solution)
scale_to_clipper(pts) ==
    [i \in 1..Len(pts) |-> <<ToClipper(pts[i][1]), ToClipper(pts[i][2])>>]
scale_from_clipper_unscaled(paths) == paths
scale_from_clipper(paths) ==
    [k \in 1..Len(paths) |->
        [i \in 1..Len(paths[k]) |-> <<paths[k][i][1] * Unit, paths[k][i][2] * Unit>>]]

\* the least and the greatest of two numbers
Min(a, b) == IF a <= b THEN a ELSE b
Max(a, b) == IF a >= b THEN a ELSE b

\* the rectangle (x0, x1, y0, y1) a rectangular polygon encloses
Rectangle(polygon) ==
    LET xs == {polygon[i][1] : i \in 1..Len(polygon)}
        ys == {polygon[i][2] : i \in 1..Len(polygon)}
    IN  <<CHOOSE x \in xs : \A z \in xs : x <= z, CHOOSE x \in xs : \A z \in xs : x >= z,
          CHOOSE y \in ys : \A z \in ys : y <= z, CHOOSE y \in ys : \A z \in ys : y >= z>>

\* the part of the segment from a to b (parallel to an axis) within the
\* rectangle r, in the direction of the segment; <<>> when there is none
ClipSegment(r, a, b) ==
    IF a[2] = b[2]
    THEN LET lo == Max(Min(a[1], b[1]), r[1])
             hi == Min(Max(a[1], b[1]), r[2])
         IN  IF a[2] < r[3] \/ a[2] > r[4] \/ lo >= hi THEN <<>>
             ELSE IF a[1] <= b[1] THEN <<<<lo, a[2]>>, <<hi, a[2]>>>>
                                  ELSE <<<<hi, a[2]>>, <<lo, a[2]>>>>
    ELSE LET lo == Max(Min(a[2], b[2]), r[3])
             hi == Min(Max(a[2], b[2]), r[4])
         IN  IF a[1] < r[1] \/ a[1] > r[2] \/ lo >= hi THEN <<>>
             ELSE IF a[2] <= b[2] THEN <<<<a[1], lo>>, <<a[1], hi>>>>
                                  ELSE <<<<a[1], hi>>, <<a[1], lo>>>>

\* the pieces of consecutive segments, joined where one ends at the vertex the
\* next begins at
RECURSIVE JoinPieces(_, _, _)
JoinPieces(pieces, i, paths) ==
    IF i > Len(pieces) THEN paths
    ELSE IF pieces[i] = <<>> THEN JoinPieces(pieces, i + 1, paths)
    ELSE IF i > 1 /\ pieces[i - 1] # <<>> /\ pieces[i - 1][2] = pieces[i][1]
         THEN JoinPieces(pieces, i + 1,
                         [paths EXCEPT ![Len(paths)] = Append(@, pieces[i][2])])
         ELSE JoinPieces(pieces, i + 1, Append(paths, pieces[i]))

\* Pyclipper.Execute2(CT_INTERSECTION) and PolyTreeToPaths for a closed clip
\* polygon and an open subject path: the parts of the path within the polygon
ClipOpenPath(polygon, pts) ==
    JoinPieces([i \in 1..(Len(pts) - 1) |-> ClipSegment(Rectangle(polygon), pts[i], pts[i + 1])],
               1, <<>>)

\* wrapper(canvas, polygon, points, **kwargs): the calls of the wrapped function,
\* one for each path of the solution
clip_lines_unclipped(polygon, pts, kwargs) ==
    <<[op |-> "func", polygon |-> scale_to_clipper(polygon),
       points |-> scale_from_clipper(<<scale_to_clipper(pts)>>)[1], kwargs |-> kwargs]>>
clip_lines_with_polygon(polygon, pts, kwargs) ==
    LET points == scale_to_clipper(pts)
        poly == scale_to_clipper(polygon)
        solution == scale_from_clipper(ClipOpenPath(poly, points))
    IN  [k \in 1..Len(solution) |->
            [op |-> "func", polygon |-> poly, points |-> solution[k], kwargs |-> kwargs]]

----------------------------------------------------------------------------
(* canvas.py, shapes.py: the set-up of the clip region made for one call *)

\* the call runs the wrapper of clip_lines_with_polygon, which converts the
\* polygon with scale_to_clipper and makes a Pyclipper with the polygon as its
\* clip path: a call of a clipped draw function, or a Shape.draw with a
\* polygon that is not empty
SetsUpClipper(c) ==
    \/ c.op \in {"draw_lines_inside_polygon", "draw_lines_m_inside_polygon"}
    \/ c.op = "Shape.draw" /\ c.polygon \notin {None, "Empty"}

\* the call converts the polygon to millimeters: polygon =
\* tuple(self.scale_back(polygon, canvas_unit)) in a Shape.draw on a linked unit
ConvertsPolygon(c) == c.op = "Shape.draw" /\ IsLinked(c.canvas_unit)

\* the number of clipper set-ups and of polygon conversions that the calls make
ClipperSetUps(calls) == Cardinality({ i \in DOMAIN calls : SetsUpClipper(calls[i]) })
PolygonConversions(calls) == Cardinality({ i \in DOMAIN calls : ConvertsPolygon(calls[i]) })

----------------------------------------------------------------------------
(* pdf_via_cairo.py: CanvasCairo.draw_table; canvas.py: Canvas.draw_table_canvas_mm *)

\* the defaults of row_height, col_width, text_height and heading_height
row_height == 3 * Unit
col_width == 18 * Unit
text_height == (24 * Unit) \div 10
heading_height == 12 * Unit

\* self.draw_lines((p, q), width=0.1) and self.draw_text(p, str(cell), size=text_height)
TableLine(p, q) ==
    [op |-> "draw_lines", points |-> <<p, q>>, text |-> None, size |-> Unit \div 10]
TableText(p, cell) ==
    [op |-> "draw_text", points |-> <<p>>, text |-> cell, size |-> text_height]

\* the calls for one row whose top is at y_top and whose cells are `height`
\* high: the line above it, for every cell the line on its left and its text
\* (at row_height below the top), and the line on the right of the last
\* cell (the row is not empty)
TableRow(x0, y_top, height, row) ==
    <<TableLine(<<x0, y_top>>, <<x0 + col_width * Len(row), y_top>>)>>
    \o [k \in 1..(2 * Len(row)) |->
          LET x_left == x0 + col_width * (((k + 1) \div 2) - 1)
          IN  IF k % 2 = 1
              THEN TableLine(<<x_left, y_top - height>>, <<x_left, y_top>>)
              ELSE TableText(<<x_left, y_top - row_height>>, row[k \div 2])]
    \o <<TableLine(<<x0 + col_width * Len(row), y_top - height>>,
                   <<x0 + col_width * Len(row), y_top>>)>>

\* for row_number, row in enumerate(values): the calls from the i-th row on
RECURSIVE TableBodyFrom(_, _, _, _)
TableBodyFrom(x0, y0, values, i) ==
    IF i > Len(values) THEN <<>>
    ELSE TableRow(x0, y0 - row_height * (i - 1), row_height, values[i])
         \o TableBodyFrom(x0, y0, values, i + 1)

\* the rows and the line below the last of them; row_number and row are not
\* bound after a loop over no rows
TableBody(x0, y0, values) ==
    IF values = <<>>
    THEN [calls |-> <<>>, err |-> "UnboundLocalError"]
    ELSE [calls |-> TableBodyFrom(x0, y0, values, 1)
                    \o <<TableLine(<<x0, y0 - row_height * Len(values)>>,
                                   <<x0 + col_width * Len(values[Len(values)]),
                                     y0 - row_height * Len(values)>>)>>,
          err |-> None]

\* heading_row = values.pop(0): what is left in the list `values`
HeadingPopped(values) == Tail(values)

\* CanvasCairo.draw_table(origin, dimensions, values, heading=heading): the
\* list `values` afterwards, the calls made on the backend and the exception
\* raised (None: returned)
CairoDrawTable(origin, values, heading) ==
    IF heading /\ values = <<>>
    THEN [values |-> values, calls |-> <<>>, err |-> "IndexError"]
    ELSE LET left == IF heading THEN HeadingPopped(values) ELSE values
             head == IF heading
                     THEN TableRow(origin[1], origin[2], heading_height, Head(values))
                     ELSE <<>>
             y0 == IF heading THEN origin[2] - heading_height ELSE origin[2]
             body == TableBody(origin[1], y0, left)
         IN  [values |-> left, calls |-> head \o body.calls, err |-> body.err]

\* Canvas.draw_table_canvas_mm(origin, table, heading=heading):
\* len(table[0]) raises for a table without rows
draw_table_canvas_mm(origin, values, heading) ==
    IF values = <<>>
    THEN [values |-> values, calls |-> <<>>, err |-> "IndexError"]
    ELSE CairoDrawTable(origin, values, heading)

----------------------------------------------------------------------------
(* canvas.py: Canvas.add and Canvas.draw *)

\* the unit objects a caller adds: the class attribute `name` of each and what
\* its __draw__ does (returns, or raises an exception of the class given)
CanvasUnits == {"u1", "u2", "u3"}
UnitName(unit) == CASE unit = "u1" -> "section" [] unit = "u2" -> "section" [] unit = "u3" -> "legend"
UnitDraw(unit) == CASE unit = "u1" -> "ok" [] unit = "u2" -> "CanvasError" [] unit = "u3" -> "ValueError"

\* a name is a string followed by a number of "+"
Name(base, plus) == <<base, plus>>

\* the keys of the registry self.units, a dict: its entries in insertion order
Keys(registry) == {registry[i].key : i \in 1..Len(registry)}

\* self.units[key] = unit
DictSet(registry, key, unit) ==
    IF key \in Keys(registry)
    THEN [i \in 1..Len(registry) |-> IF registry[i].key = key THEN [key |-> key, unit |-> unit]
                                                        ELSE registry[i]]
    ELSE Append(registry, [key |-> key, unit |-> unit])

\* while True: if unit_name not in self.units: break; unit_name = unit_name + "+"
FreeNameOnePlus(registry, unit_name) ==
    IF unit_name \in Keys(registry) THEN Name(unit_name[1], unit_name[2] + 1) ELSE unit_name
RECURSIVE FreeName(_, _)
FreeName(registry, unit_name) ==
    IF unit_name \in Keys(registry) THEN FreeName(registry, Name(unit_name[1], unit_name[2] + 1))
    ELSE unit_name

\* Canvas.add(unit, name): unit_name = name or unit.name; ...;
\* self.units[unit_name] = unit; unit.canvas = self; unit.__post_add__()
CanvasAdd(c, unit, name) ==
    LET unit_name == FreeName(c.units, IF name = <<>> THEN Name(UnitName(unit), 0) ELSE name[1])
    IN  [c EXCEPT !.units = DictSet(@, unit_name, unit),
                  !.fields[unit] = [canvas |-> TRUE, post_add |-> @.post_add + 1],
                  !.adds = @ + 1,
                  !.asked = [unit |-> unit, before |-> c.units,
                             name |-> IF name = <<>> THEN Name(UnitName(unit), 0) ELSE name[1]]]

\* a call observed during Canvas.draw, on the unit registered under a key or
\* on the backend
Event(op, key) == [op |-> op, key |-> key]
NoKey == Name(None, 0)

\* Canvas.place_units: unit.__place__(self) for each unit
place_units(registry) == [i \in 1..Len(registry) |-> Event("__place__", registry[i].key)]

\* except CanvasException as exception: the exception is logged and the loop
\* goes on; any other exception is printed and raised again
HandledAlways(exception) == TRUE
HandledNever(exception) == FALSE
Handled(exception) == exception \in {"CanvasException", "CanvasError"}

\* the body of the loop of draw_units for the units from the i-th on: the calls
\* made and the exception that leaves the loop (None: the loop ended)
RECURSIVE DrawFrom(_, _)
DrawFrom(registry, i) ==
    IF i > Len(registry) THEN [events |-> <<>>, err |-> None]
    ELSE LET key == registry[i].key
             outcome == UnitDraw(registry[i].unit)
             started == <<Event("logger.info", key), Event("__draw__", key)>>
         IN  IF outcome = "ok"
             THEN LET rest == DrawFrom(registry, i + 1)
                  IN  [events |-> started \o rest.events, err |-> rest.err]
             ELSE IF Handled(outcome)
             THEN LET rest == DrawFrom(registry, i + 1)
                  IN  [events |-> started \o <<Event("logger.exception", key),
                                               Event("logger.info", key)>> \o rest.events,
                       err |-> rest.err]
             ELSE [events |-> started \o <<Event("print", key)>>, err |-> outcome]

\* Canvas.draw_units: self.backend.__pre_draw__(), then the loop
draw_units(registry) ==
    LET loop == DrawFrom(registry, 1)
    IN  [events |-> <<Event("__pre_draw__", NoKey)>> \o loop.events, err |-> loop.err]

\* Canvas.draw: self.place_units(); self.draw_units(); self.save_to_file()
CanvasDrawSaveFirst(c) ==
    LET d == draw_units(c.units)
    IN  [c EXCEPT !.log = <<Event("save_to_file", NoKey)>> \o place_units(c.units) \o d.events,
                  !.err = d.err, !.done = TRUE, !.at = c.units]
CanvasDraw(c) ==
    LET d == draw_units(c.units)
    IN  [c EXCEPT !.log = place_units(c.units) \o d.events
                          \o (IF d.err = None THEN <<Event("save_to_file", NoKey)>> ELSE <<>>),
                  !.err = d.err, !.done = TRUE, !.at = c.units]

----------------------------------------------------------------------------
(* The state after the modules are imported: every catalog MultiShape is new *)

\* polygons are passed by name; None is the absent polygon
PolygonPoints ==
    [ Square |-> <<<<0, 0>>, <<10 * Unit, 0>>, <<10 * Unit, 10 * Unit>>, <<0, 10 * Unit>>>>,
      Small  |-> <<<<0, 0>>, <<4 * Unit, 0>>, <<4 * Unit, 4 * Unit>>, <<0, 4 * Unit>>>> ]

NoCall == [ms |-> None, n |-> 0, args |-> DrawArgs(<<0, 0>>, 0, FloatingUnit, None, None, 1)]

NoRequest ==
    Request(FloatingUnit, None, None, <<0, 0, 0, 0>>, "dip_none", NoAggregate, None, 1, 1)

\* a fill request that was made: the iterators when it began and how it ended
\* (the calls it made are in the sink)
FillRecord(done, req, start, o) ==
    [done |-> done, req |-> req, start |-> start, diag |-> o.diag, err |-> o.err]

\* the request before: its record and the calls it made
Earlier(record, calls) ==
    [done |-> record.done, req |-> record.req, start |-> record.start,
     diag |-> record.diag, err |-> record.err, calls |-> calls]

NoFill == FillRecord(FALSE, NoRequest, MultiShapeInit, Outcome(MultiShapeInit, <<>>, 0, None))

\* no Shape.draw call was made directly yet
NoDraw ==
    [done |-> FALSE, shape |-> None, err |-> None,
     args |-> DrawArgs(<<0, 0>>, 0, FloatingUnit, None, None, 1)]

\* a section at 1:1000 / 1:100 that is not placed and has no unit linked to it
NoConversion == [on |-> None, trip |-> None, v |-> 0, mid |-> 0, back |-> 0]
NoUnits ==
    [parent |-> CanvasUnitScaled(1000, 100, 0, 0, NoOrigin),
     linked |-> CanvasUnitScaled(1000, 100, 0, 0, NoOrigin),
     source |-> CanvasUnitScaled(1000, 100, 0, 0, NoOrigin),
     made |-> FALSE, op |-> "init", conv |-> NoConversion]

\* no clipped draw function was called yet
NoClip == [done |-> FALSE, polygon |-> <<>>, points |-> <<>>, kwargs |-> None]

\* no rotation was made yet
NoTurn == [done |-> FALSE, points |-> <<>>, angle |-> 0, there |-> <<>>, back |-> <<>>]

\* Canvas(page, output_file): no unit, and draw() not called yet.  Besides the
\* registry and the fields of the units the record keeps what was observed:
\* the number of add calls and the last of them (the unit, the name asked for
\* and the registry before it), whether draw() was called and the last call of it
\* (the registry it found, the calls it made and the exception it raised)
NewCanvas ==
    [units |-> <<>>, fields |-> [u \in CanvasUnits |-> [canvas |-> FALSE, post_add |-> 0]],
     adds |-> 0, asked |-> [unit |-> None, before |-> <<>>, name |-> Name(None, 0)],
     done |-> FALSE, at |-> <<>>, log |-> <<>>, err |-> None]

\* no table was made yet; afterwards: the rows the caller put in its list, the
\* list now, the number of times it was drawn, the heading flag, the calls
\* and the exception of the first and of the last draw
NoTable ==
    [given |-> <<>>, rows |-> <<>>, draws |-> 0, heading |-> FALSE,
     first |-> <<>>, calls |-> <<>>, err |-> None]

Passes == {"p1", "p2", "p3"}

IdlePass == [status |-> "idle", inst |-> None, left |-> 0, obs |-> <<>>, shared |-> FALSE]

Init ==
    /\ cursor = MultiShapeInit
    /\ sink = <<>>
    /\ call = NoCall
    /\ pass = [p \in Passes |-> IdlePass]
    /\ last = NoFill
    /\ prev = Earlier(NoFill, <<>>)
    /\ drawn = NoDraw
    /\ units = NoUnits
    /\ clip = NoClip
    /\ turn = NoTurn
    /\ canvas = NewCanvas
    /\ catalog = Catalog
    /\ table = NoTable

----------------------------------------------------------------------------
(* Direct draw calls on the catalog MultiShapes *)

\* the number of draw calls a run makes
MaxDraws == 5

DrawnShapes == {"Spai", "Riolite", "AndesibasaltTuff"}

ArgSamples ==
    { DrawArgs(<<0, 0>>, 0, FloatingUnit, "None", "None", 1),
      DrawArgs(<<2 * Unit, 0 - Unit>>, 45, LinkedUnit(1000, 100), "Square", "BLACK", 2) }

\* a caller calls ms.draw(position, angle, canvas_unit, polygon, color, scale)
DirectDraw(ms, a) ==
    /\ Len(sink) < MaxDraws
    /\ LET r == MultiShapeDraw(ms, cursor, a)
       IN  /\ cursor' = r.cursor
           /\ sink' = sink \o r.calls
           /\ catalog' = CatalogAfter(catalog, r.calls)
    /\ call' = [ms |-> ms, n |-> call.n + 1, args |-> a]
    /\ UNCHANGED <<pass, last, prev, drawn, units, clip, turn, canvas, table>>

NextCycle == \E ms \in DrawnShapes, a \in ArgSamples : DirectDraw(ms, a)

SpecCycle == Init /\ [][NextCycle]_vars

----------------------------------------------------------------------------
(* Tiling passes that run concurrently: each draw of a pass (one iteration of *)
(* the inner loop of fill_polygon_with_shapes) is a step; next(self.iterator) *)
(* is a single call of the interpreter, so a draw reads and advances the      *)
(* iterator in one step.                                                      *)

\* the number of grid points of a pass
MaxPoints == 2

PassShapes == {"Spai", "Riolite"}

Running(p) == pass[p].status = "running"

\* a pass over n grid points with the shape ms begins
StartPass(p, ms, n) ==
    /\ pass[p].status = "idle"
    /\ pass' = [q \in Passes |->
                  IF q = p
                  THEN [status |-> "running", inst |-> ms, left |-> n, obs |-> <<>>,
                        shared |-> \E o \in Passes \ {p} : Running(o) /\ pass[o].inst = ms]
                  ELSE IF Running(q) /\ pass[q].inst = ms
                  THEN [pass[q] EXCEPT !.shared = TRUE]
                  ELSE pass[q]]
    /\ UNCHANGED <<cursor, sink, call, last, prev, drawn, units, clip, turn, canvas, catalog, table>>

\* shape.draw((x, y), angle, canvas_unit, polygon, color, scale=scale) at the next grid point
PassDraw(p) ==
    /\ Running(p)
    /\ pass[p].left > 0
    /\ LET a == DrawArgs(<<Len(pass[p].obs) * Unit, 0>>, 0, FloatingUnit, "Square", "None", 1)
           r == MultiShapeDraw(pass[p].inst, cursor, a)
       IN  /\ cursor' = r.cursor
           /\ sink' = sink \o r.calls
           /\ pass' = [pass EXCEPT ![p].left = @ - 1,
                                   ![p].obs = Append(@, r.calls[1].shape)]
           /\ catalog' = CatalogAfter(catalog, r.calls)
    /\ UNCHANGED <<call, last, prev, drawn, units, clip, turn, canvas, table>>

\* the walk of the pass is over
EndPass(p) ==
    /\ Running(p)
    /\ pass[p].left = 0
    /\ pass' = [pass EXCEPT ![p].status = "done"]
    /\ UNCHANGED <<cursor, sink, call, last, prev, drawn, units, clip, turn, canvas, catalog, table>>

NextConc ==
    \/ \E p \in Passes, ms \in PassShapes, n \in 1..MaxPoints : StartPass(p, ms, n)
    \/ \E p \in Passes : PassDraw(p)
    \/ \E p \in Passes : EndPass(p)

SpecConc == Init /\ [][NextConc]_vars

----------------------------------------------------------------------------
(* Fill requests made one after the other in one process *)

\* a caller calls fill_polygon_with_pattern(canvas_unit, rock, polygon, bounding_box,
\* dip_function, aggregate, color, scale, offset_factor); an exception that a
\* request raised ended the run
FillRequest(q) ==
    /\ last.err = None
    /\ \E o \in {fill_polygon_with_pattern(cursor, q)} :
           /\ cursor' = o.cursor
           /\ sink' = o.calls
           /\ last' = FillRecord(TRUE, q, cursor, o)
           /\ catalog' = CatalogAfter(catalog, o.calls)
    /\ prev' = Earlier(last, sink)
    /\ UNCHANGED <<call, pass, drawn, units, clip, turn, canvas, table>>

\* bounding boxes (x0, x1, y0, y1)
BoxSmall == <<0, 4 * Unit, 0, 4 * Unit>>
BoxNegative == <<0 - 50, 30, 0 - 70, 10>>
BoxFlat == <<0, 4 * Unit, 0, 8>>
BoxNarrow == <<0, 2 * Unit, 0, 2 * Unit>>

MotifRequest(canvas_unit, rock, bounding_box, dip, aggregate, scale, offset_factor) ==
    Request(canvas_unit, rock, "Small", bounding_box, dip, aggregate, "None", scale, offset_factor)

\* requests with a plain shape, MultiShapes of two and of four members, names
\* that are not in the catalog, aggregates, and one request of each line fill
FillRequests ==
    { MotifRequest(FloatingUnit, r, BoxSmall, "dip_by_x", NoAggregate, 1, 1) :
          r \in {"pesok", "spaj", "riolit", "valunnik", "mramor"} }
    \cup
    { MotifRequest(FloatingUnit, r, BoxNegative, "dip_by_x", NoAggregate, 1, 1) :
          r \in {"pesok", "spaj"} }
    \cup
    { MotifRequest(LinkedUnit(1000, 100), r, BoxFlat, "dip_tenth", NoAggregate, 1, 1) :
          r \in {"pesok", "riolit"} }
    \cup
    { MotifRequest(LinkedUnit(500, 1000), "spaj", BoxNegative, "dip_none", NoAggregate, 2, 1),
      MotifRequest(FloatingUnit, "spaj", BoxSmall, "dip_zero", NoAggregate, 1, 2),
      MotifRequest(FloatingUnit, "pesok", BoxSmall, "dip_by_x", AggregateStr("gravij"), 1, 1),
      MotifRequest(FloatingUnit, "spaj", BoxSmall, "dip_by_x",
                   AggregateList(<<"pesok", "riolit">>), 1, 1),
      MotifRequest(FloatingUnit, "pesok", BoxSmall, "dip_by_x",
                   AggregateList(<<"gravij", "mramor">>), 1, 1),
      MotifRequest(FloatingUnit, "spaj", BoxSmall, "dip_by_x", AggregateStr("mramor"), 1, 1),
      MotifRequest(FloatingUnit, "pesok", BoxSmall, "dip_by_x", AggregateList(<<>>), 1, 1),
      MotifRequest(FloatingUnit, "pesok", BoxSmall, "dip_by_x", AggregateStr(""), 1, 1),
      MotifRequest(FloatingUnit, "mramor", BoxSmall, "dip_by_x", AggregateStr("pesok"), 1, 1),
      MotifRequest(FloatingUnit, "torf", BoxSmall, "dip_by_x", NoAggregate, 1, 1),
      MotifRequest(FloatingUnit, "korennye_porody", BoxNarrow, "dip_by_x", NoAggregate, 1, 1),
      MotifRequest(FloatingUnit, "slancy", BoxNarrow, "dip_by_x", NoAggregate, 1, 1) }

NextFill == \E q \in FillRequests : FillRequest(q)

SpecFill == Init /\ [][NextFill]_vars

\* vertical-line fills: both rocks, four units, boxes with a negative, an
\* unaligned, an empty and an inverted x range
VerticalBoxes ==
    { <<0, 10 * Unit, 0, 10 * Unit>>,
      <<0 - 70, 50, 0, Unit>>,
      <<0 - 2 * Unit, 2 * Unit, 0 - Unit, Unit>>,
      <<10, 90, 0, Unit>>,
      <<30, 30, 0, Unit>>,
      <<50, 10, 0, Unit>>,
      <<0 - 15, 0 - 5, 0, Unit>> }

VerticalUnits ==
    { FloatingUnit, LinkedUnit(1000, 100), LinkedUnit(500, 100), LinkedUnit(2000, 1000) }

VerticalRequests ==
    { Request(u, r, "Square", b, "dip_none", NoAggregate, "None", 1, 1) :
          u \in VerticalUnits, r \in VerticalRocks, b \in VerticalBoxes }

NextVertical == \E q \in VerticalRequests : FillRequest(q)

SpecVertical == Init /\ [][NextVertical]_vars

\* the same request with bounding boxes that contain one another
NestedBoxes ==
    { BoxSmall,
      <<0 - 30, 4 * Unit, 0 - 30, 5 * Unit>>,
      <<0 - 70, 6 * Unit, 0 - 50, 6 * Unit>> }

BoxRequests ==
    { MotifRequest(FloatingUnit, r, b, "dip_by_x", NoAggregate, 1, 1) :
          r \in {"pesok", "spaj", "korennye_porody", "slancy"}, b \in NestedBoxes }
    \cup
    { MotifRequest(LinkedUnit(1000, 1000), "granit", b, "dip_by_x", NoAggregate, 1, 1) :
          b \in NestedBoxes }

NextBox == \E q \in BoxRequests : FillRequest(q)

SpecBox == Init /\ [][NextBox]_vars

\* fills with the scale and offset_factor overrides, zero and negative ones
\* included, over a plain, an empty and an inverted bounding box
BoxEmpty == <<0, 0, 0, 0>>
BoxInverted == <<4 * Unit, 0, 4 * Unit, 0>>

Overrides == {<<1, 1>>, <<2, 1>>, <<0, 1>>, <<1, 0>>, <<0 - 1, 1>>, <<1, 0 - 1>>, <<0 - 1, 0 - 1>>}

OverrideRequests ==
    { MotifRequest(FloatingUnit, r, b, "dip_none", NoAggregate, o[1], o[2]) :
          r \in {"pesok", "torf", "korennye_porody"},
          b \in {BoxSmall, BoxEmpty, BoxInverted}, o \in Overrides }
    \cup
    { MotifRequest(LinkedUnit(1000, 100), "spaj", BoxFlat, "dip_none", NoAggregate, o[1], o[2]) :
          o \in Overrides }

NextOverride == \E q \in OverrideRequests : FillRequest(q)

SpecOverride == Init /\ [][NextOverride]_vars

\* every kind of rock name with the arguments a line fill does not take: the
\* dip function, the aggregate, the scale and the offset factor
StrategyRocks ==
    VerticalRocks \cup DiagonalRocks \cup {"pesok", "spaj", "mramor"}

StrategyArguments ==
    { <<"dip_none", NoAggregate, 1, 1>>,
      <<"dip_tenth", AggregateStr("gravij"), 2, 1>>,
      <<"dip_zero", AggregateStr("mramor"), 1, 2>>,
      <<"dip_tenth", NoAggregate, 0, 1>> }

StrategyRequests ==
    { MotifRequest(FloatingUnit, r, BoxNarrow, a[1], a[2], a[3], a[4]) :
          r \in StrategyRocks, a \in StrategyArguments }
    \cup
    { MotifRequest(LinkedUnit(1000, 100), r, BoxNarrow, a[1], a[2], 1, a[4]) :
          r \in {"prs", "slancy", "pesok"}, a \in StrategyArguments }

NextStrategy == \E q \in StrategyRequests : FillRequest(q)

SpecStrategy == Init /\ [][NextStrategy]_vars

----------------------------------------------------------------------------
(* Direct Shape.draw calls on plain shapes *)

\* a caller calls shape.draw(position, angle, canvas_unit, polygon, color, scale)
DrawShape(shape, a) ==
    /\ \E r \in {ShapeDraw(shape, a)} :
           /\ sink' = r.calls
           /\ drawn' = [done |-> TRUE, shape |-> shape, err |-> r.err, args |-> a]
           /\ catalog' = IF r.err = None
                          THEN [catalog EXCEPT ![shape] = ShapeAfterDraw(catalog[shape], a)]
                          ELSE catalog
    /\ UNCHANGED <<cursor, call, pass, last, prev, units, clip, turn, canvas, table>>

\* a section drawn at 1:1000 / 1:100 with offsets, one drawn at 1:500 / 1:500
SectionUnit == CanvasUnitScaled(1000, 100, Unit, 0 - 2 * Unit, <<10 * Unit, 20 * Unit>>)
PlanUnit == CanvasUnitScaled(500, 500, 0, 0, <<0, 0>>)

DrawTargets == {FloatingUnit, SectionUnit, CanvasUnitLinked(SectionUnit), CanvasUnitLinked(PlanUnit)}

DrawSamples ==
    { DrawArgs(position, angle, canvas_unit, polygon, "BLACK", k) :
          position \in {<<0, 0>>, <<2 * Unit, 0 - Unit>>},
          angle \in {0, 90, 180, 0 - 90},
          canvas_unit \in DrawTargets,
          polygon \in {"None", "Empty", "Small"},
          k \in {1, 2} }

NextShape == \E shape \in {"Glina", "Il", "Sand"}, a \in DrawSamples : DrawShape(shape, a)

SpecShape == Init /\ [][NextShape]_vars

----------------------------------------------------------------------------
(* Fill requests and direct draw calls in one process, in any order *)

\* a caller calls ms.draw(position, angle, canvas_unit, polygon, color, scale)
\* on a MultiShape of the catalog
DrawMultiShape(ms, a) ==
    /\ last.err = None
    /\ LET r == MultiShapeDraw(ms, cursor, a)
       IN  /\ cursor' = r.cursor
           /\ sink' = r.calls
           /\ catalog' = CatalogAfter(catalog, r.calls)
    /\ drawn' = [done |-> TRUE, shape |-> ms, err |-> None, args |-> a]
    /\ UNCHANGED <<call, pass, last, prev, units, clip, turn, canvas, table>>

\* motif fills with a plain shape, with a MultiShape and with an aggregate, a
\* name that is not in the catalog, a vertical and a diagonal line fill
CatalogRequests ==
    { MotifRequest(FloatingUnit, r, BoxSmall, "dip_by_x", NoAggregate, 1, 1) :
          r \in {"pesok", "spaj", "mramor", "torf"} }
    \cup
    { MotifRequest(FloatingUnit, "slancy", BoxNarrow, "dip_by_x", NoAggregate, 1, 1),
      MotifRequest(FloatingUnit, "pesok", BoxSmall, "dip_by_x", AggregateStr("spaj"), 2, 1) }

CatalogSamples ==
    { DrawArgs(<<2 * Unit, 0 - Unit>>, 90, canvas_unit, "Small", "BLACK", 2) :
          canvas_unit \in {FloatingUnit, SectionUnit} }

NextCatalog ==
    \/ \E q \in CatalogRequests : FillRequest(q)
    \/ \E a \in CatalogSamples : DrawShape("Glina", a)
    \/ \E a \in CatalogSamples : DrawMultiShape("Spai", a)

SpecCatalog == Init /\ [][NextCatalog]_vars

----------------------------------------------------------------------------
(* Scaled and linked units: construction, changes to the parent, conversions *)

\* the scales, offsets and origins used
UnitScales == {<<1000, 100>>, <<500, 500>>, <<3000, 200>>}
UnitOffsets == {<<0, 0>>, <<Unit, 0 - 2 * Unit>>}
UnitOrigins == {<<10 * Unit, 20 * Unit>>}
TripValues == {1, 111, 0 - 30}
Trips == {"mm_m_mm_horizontal", "mm_m_mm_vertical", "m_mm_m_horizontal", "m_mm_m_vertical"}

\* CanvasUnitLinked(linked_cu=parent) is constructed
Link ==
    /\ units' = [units EXCEPT !.linked = CanvasUnitLinked(units.parent),
                              !.source = units.parent, !.made = TRUE, !.op = "link"]
    /\ UNCHANGED <<cursor, sink, call, pass, last, prev, drawn, clip, turn, canvas, catalog, table>>

\* the parent is placed on the canvas: __place__ sets its origin
Place(origin) ==
    /\ units.parent.origin # origin
    /\ units' = AfterParentChange(units, [units.parent EXCEPT !.origin = origin], "place")
    /\ UNCHANGED <<cursor, sink, call, pass, last, prev, drawn, clip, turn, canvas, catalog, table>>

\* the parent is given other scales; its millimeter factors follow (__post_init__)
SetScales(sh, sv) ==
    /\ <<units.parent.scale_horizontal, units.parent.scale_vertical>> # <<sh, sv>>
    /\ units' = AfterParentChange(units,
                    [units.parent EXCEPT !.scale_horizontal = sh, !.scale_vertical = sv,
                                         !.scale_horizontal_mm = ScaleMm(sh),
                                         !.scale_vertical_mm = ScaleMm(sv)], "set_scales")
    /\ UNCHANGED <<cursor, sink, call, pass, last, prev, drawn, clip, turn, canvas, catalog, table>>

\* the parent is given other offsets
SetOffsets(xo, yo) ==
    /\ <<units.parent.x_offset_m, units.parent.y_offset_m>> # <<xo, yo>>
    /\ units' = AfterParentChange(units,
                    [units.parent EXCEPT !.x_offset_m = xo, !.y_offset_m = yo], "set_offsets")
    /\ UNCHANGED <<cursor, sink, call, pass, last, prev, drawn, clip, turn, canvas, catalog, table>>

\* a value is converted and converted back, on the parent or on the linked unit
Convert(on, trip, v) ==
    /\ on = "linked" => units.made
    /\ \E r \in {RoundTrip(IF on = "linked" THEN units.linked ELSE units.parent, trip, v)} :
           units' = [units EXCEPT !.op = "convert",
                                  !.conv = [on |-> on, trip |-> trip, v |-> v,
                                            mid |-> r.mid, back |-> r.back]]
    /\ UNCHANGED <<cursor, sink, call, pass, last, prev, drawn, clip, turn, canvas, catalog, table>>

NextUnits ==
    \/ Link
    \/ \E o \in UnitOrigins : Place(o)
    \/ \E k \in UnitScales : SetScales(k[1], k[2])
    \/ \E f \in UnitOffsets : SetOffsets(f[1], f[2])
    \/ \E on \in {"parent", "linked"}, trip \in Trips, v \in TripValues : Convert(on, trip, v)

SpecUnits == Init /\ [][NextUnits]_vars

----------------------------------------------------------------------------
(* Calls of a clipped draw function: draw_lines_inside_polygon or *)
(* draw_lines_m_inside_polygon with a rectangular polygon         *)

\* a caller calls unit.draw_lines_inside_polygon(polygon, points, **kwargs)
ClippedDraw(polygon, pts, kwargs) ==
    /\ sink' = clip_lines_with_polygon(polygon, pts, kwargs)
    /\ clip' = [done |-> TRUE, polygon |-> polygon, points |-> pts, kwargs |-> kwargs]
    /\ UNCHANGED <<cursor, call, pass, last, prev, drawn, units, turn, canvas, catalog, table>>

\* rectangles with corners on the binary grid (0 and 4) and off it (0.1 and 2.1)
ClipPolygons ==
    { FloatPoints(<<<<0, 0>>, <<4 * Unit, 0>>, <<4 * Unit, 4 * Unit>>, <<0, 4 * Unit>>>>),
      FloatPoints(<<<<2, 2>>, <<42, 2>>, <<42, 42>>, <<2, 42>>>>) }

\* coordinates on the binary grid (-1, 0.5, 4.5) and off it (0.1, 2.05)
ClipCoordinates == {0 - Unit, 2, 10, 41, 90}

\* open paths of one or two segments parallel to the axes
ClipPaths ==
    { FloatPoints(<<<<x, y>>, <<z, y>>>>) : x \in ClipCoordinates, y \in {2, 10, 90},
                                             z \in ClipCoordinates }
    \cup
    { FloatPoints(<<<<x, y>>, <<x, z>>>>) : x \in {10, 41}, y \in ClipCoordinates,
                                             z \in ClipCoordinates }
    \cup
    { FloatPoints(<<<<x, y>>, <<z, y>>, <<z, w>>>>) : x \in {0 - Unit, 2}, y \in {3, 10},
                                                      z \in {41, 90}, w \in {0 - Unit, 41} }
    \cup
    { FloatPoints(<<<<10, 10>>, <<3 * Unit, 10>>, <<3 * Unit, w>>>>) : w \in {0 - Unit, 3 * Unit} }

DrawKeywords == {"width=0.1", "width=0.1, color=RED"}

NextClip ==
    \E polygon \in ClipPolygons, pts \in {q \in ClipPaths : \A i \in 1..(Len(q) - 1) : q[i] # q[i + 1]},
       kwargs \in DrawKeywords : ClippedDraw(polygon, pts, kwargs)

SpecClip == Init /\ [][NextClip]_vars

----------------------------------------------------------------------------
(* Rotations there and back: Shape.__rotate__ by an angle and, on the result, *)
(* by the opposite angle                                                      *)

RotateThereAndBack(pts, angle) ==
    /\ turn' = [done |-> TRUE, points |-> pts, angle |-> angle,
                there |-> rotate_double(DoublePoints(pts), angle),
                back |-> rotate_double(rotate_double(DoublePoints(pts), angle), 0 - angle)]
    /\ UNCHANGED <<cursor, sink, call, pass, last, prev, drawn, units, clip, canvas, catalog, table>>

\* the whole coordinates of the points rotated
MaxCoordinate == 3
Coordinates == (0 - MaxCoordinate)..MaxCoordinate

RightAngles == {0, 90, 0 - 90, 180, 0 - 180, 270, 0 - 270}

\* every point on its own, and tuples of two and three points
RotatedPoints ==
    { <<<<x, y>>>> : x \in Coordinates, y \in Coordinates }
    \cup { <<<<x, 2>>, <<1, x>>>> : x \in Coordinates }
    \cup { <<<<0, 0>>, <<x, x>>, <<0 - 3, 2>>>> : x \in Coordinates }

NextRotate == \E pts \in RotatedPoints, angle \in RightAngles : RotateThereAndBack(pts, angle)

SpecRotate == Init /\ [][NextRotate]_vars

----------------------------------------------------------------------------
(* A canvas: units are added, and the canvas is drawn *)

\* the greatest number of add calls
MaxUnits == 3

\* the names a caller gives: none, a name of its own, and a name ending in "+"
GivenNames == {<<>>, <<Name("section", 1)>>, <<Name("plan", 0)>>}

\* a caller calls canvas.add(unit, name)
Add(unit, name) ==
    /\ canvas.adds < MaxUnits
    /\ canvas' = CanvasAdd(canvas, unit, name)
    /\ UNCHANGED <<cursor, sink, call, pass, last, prev, drawn, units, clip, turn, catalog, table>>

\* a caller calls canvas.draw(), and goes on if it raised
Draw ==
    /\ canvas' = CanvasDraw(canvas)
    /\ UNCHANGED <<cursor, sink, call, pass, last, prev, drawn, units, clip, turn, catalog, table>>

NextCanvas ==
    \/ \E unit \in CanvasUnits, name \in GivenNames : Add(unit, name)
    \/ Draw

SpecCanvas == Init /\ [][NextCanvas]_vars

----------------------------------------------------------------------------
(* A caller makes a table and draws it on a PDF canvas, more than once *)

\* the number of times a table is drawn
MaxTableDraws == 2

TableRows == {<<"depth", "rock">>, <<"1", "sand">>, <<"2">>}

Tables == {<<>>} \cup {<<r>> : r \in TableRows}
          \cup {<<r, q>> : r, q \in TableRows}
          \cup {<<<<"depth", "rock">>, r, q>> : r, q \in TableRows}

TableOrigin == <<10 * Unit, 100 * Unit>>

\* the caller builds the list of rows
NewTable(rows) ==
    /\ table' = [NoTable EXCEPT !.given = rows, !.rows = rows]
    /\ UNCHANGED <<cursor, sink, call, pass, last, prev, drawn, units, clip, turn, canvas, catalog>>

\* the caller calls canvas.draw_table_canvas_mm(origin, rows, heading=heading)
\* with its list, and goes on with the same list unless the call raised
DrawTable(heading) ==
    /\ table.draws < MaxTableDraws
    /\ table.err = None
    /\ LET r == draw_table_canvas_mm(TableOrigin, table.rows, heading)
       IN  table' = [table EXCEPT !.rows = r.values, !.draws = @ + 1,
                                  !.heading = heading,
                                  !.first = IF table.draws = 0 THEN r.calls ELSE @,
                                  !.calls = r.calls, !.err = r.err]
    /\ UNCHANGED <<cursor, sink, call, pass, last, prev, drawn, units, clip, turn, canvas, catalog>>

NextTable ==
    \/ \E rows \in Tables : NewTable(rows)
    \/ \E heading \in BOOLEAN : DrawTable(heading)

SpecTable == Init /\ [][NextTable]_vars

----------------------------------------------------------------------------
(* Claims about MultiShape *)

\* the number of draw calls made on ms before the i-th call of the sink
CallsBefore(ms, i) == Cardinality({j \in 1..(i - 1) : sink[j].via = ms})

\* C1: the n-th draw call ever made on a MultiShape instance (n = 0, 1, 2, ...)
\* dispatches to member number n mod k of its tuple of k members, so the
\* calls on a new instance go to A, B, C, A, B, C, ... starting from A.
C1_CycleOrder ==
    \A i \in 1..Len(sink) :
        LET ms == sink[i].via
        IN  sink[i].shape = shapes[ms][(CallsBefore(ms, i) % Len(shapes[ms])) + 1]

\* five calls on the four-member Riolite: the fifth is dispatched to the first member again
C1_Witness ==
    /\ Len(sink) = 5
    /\ \A i \in 1..5 : sink[i].via = "Riolite"
    /\ sink[4].shape = "Riolite_down"
    /\ sink[5].shape = "Riolite_left"

\* C4: each MultiShape.draw call advances the cursor of that instance by exactly
\* one step (and no other cursor) and makes exactly one draw call, on the
\* selected member, with position, angle, target, polygon, color and scale as
\* they were given.
C4_DrawOnceUnchanged ==
    [][ call'.n = call.n + 1 =>
          LET ms == call'.ms
              a == call'.args
          IN  /\ cursor'[ms] = (cursor[ms] + 1) % Len(shapes[ms])
              /\ \A o \in MultiShapes \ {ms} : cursor'[o] = cursor[o]
              /\ Len(sink') = Len(sink) + 1
              /\ SubSeq(sink', 1, Len(sink)) = sink
              /\ LET c == sink'[Len(sink')]
                 IN  /\ c.shape = shapes[ms][cursor[ms] + 1]
                     /\ c.position = a.position
                     /\ c.angle = a.angle
                     /\ c.canvas_unit = a.canvas_unit
                     /\ c.polygon = a.polygon
                     /\ c.color = a.color
                     /\ c.scale = a.scale ]_vars

\* a call with angle 45, scale 2, a polygon and a color has reached a member
C4_Witness ==
    /\ call.n >= 2
    /\ call.args.scale = 2
    /\ sink[Len(sink)].scale = 2
    /\ sink[Len(sink)].angle = 45
    /\ sink[Len(sink)].polygon = "Square"
    /\ sink[Len(sink)].via = call.ms

\* the members obs are consecutive elements of the cycle of ms, in order
Consecutive(ms, obs) ==
    \E c0 \in 0..(Len(shapes[ms]) - 1) :
        \A i \in 1..Len(obs) : obs[i] = shapes[ms][((c0 + i - 1) % Len(shapes[ms])) + 1]

\* C3: a pass that had its MultiShape instance to itself for the whole pass
\* (no other pass on the same instance ran while it ran) sees consecutive
\* elements of the cycle at successive grid points, with no locking; a pass
\* whose draws interleave with those of another pass on the same instance can
\* see a sequence that is not consecutive (the witness shows both).
C3_ExclusivePassConsecutive ==
    \A p \in Passes :
        (pass[p].status # "idle" /\ ~pass[p].shared) =>
            Consecutive(pass[p].inst, pass[p].obs)

\* pass p ran alone on the instance that q had shared with another pass before:
\* p saw consecutive members, q did not
C3_Witness ==
    \E p, q \in Passes :
        /\ p # q
        /\ pass[p].status = "done" /\ ~pass[p].shared
        /\ Len(pass[p].obs) >= 2
        /\ pass[q].status = "done" /\ pass[q].shared
        /\ pass[q].inst = pass[p].inst
        /\ ~Consecutive(pass[q].inst, pass[q].obs)

----------------------------------------------------------------------------
(* Claims about fill_polygon_with_pattern *)

\* the rock of the request is one of the line fills / is drawn with motifs
LineRock(q) == q.rock \in VerticalRocks \cup DiagonalRocks
UnknownAggregateIn(q) ==
    /\ AggregateGiven(q.aggregate)
    /\ \E i \in 1..Len(AggregateNames(q.aggregate)) : ~InCatalog(AggregateNames(q.aggregate)[i])
MotifFill(q) == ~LineRock(q) /\ InCatalog(q.rock) /\ ~UnknownAggregateIn(q)

\* the request draws a catalog MultiShape at every grid point
MultiShapeFill(q) ==
    MotifFill(q) /\ ~AggregateGiven(q.aggregate) /\ IsMultiShape(rock_shapes[q.rock])

\* the request draws one plain Shape at every grid point
PlainShapeFill(q) ==
    MotifFill(q) /\ ~AggregateGiven(q.aggregate) /\ ~IsMultiShape(rock_shapes[q.rock])

\* two Shape.draw calls agree in everything but the shape they are made on
SameButShape(c, d) ==
    /\ c.position = d.position
    /\ c.angle = d.angle
    /\ c.canvas_unit = d.canvas_unit
    /\ c.polygon = d.polygon
    /\ c.color = d.color
    /\ c.scale = d.scale

\* the same request was made twice in a row
Repeated == prev.done /\ last.done /\ prev.req = last.req

\* C2 as claimed: the same fill request issued twice in a row produces the same
\* sequence of draw calls (same member shape, position and angle at every grid
\* point) both times, for every rock of the catalog.
C2_SameRequestSameCalls == Repeated => sink = prev.calls

\* C2 as amended: the same fill request issued twice in a row makes the same
\* number of draw calls, with the same position, angle and other arguments at
\* every grid point; the shapes drawn are the same for line fills and plain
\* shapes, and whenever the iterators of the catalog are where they were when
\* the first request began; for a MultiShape rock of k members and a fill of
\* N grid points the second request carries the cycle on where the first left
\* it: its i-th draw is on member (c + N + i - 1) mod k, where c is where the
\* iterator was when the first request began.
C2_RepeatedFill ==
    Repeated =>
        /\ Len(sink) = Len(prev.calls)
        /\ LineRock(last.req) => sink = prev.calls
        /\ MotifFill(last.req) =>
              \A i \in 1..Len(sink) : SameButShape(sink[i], prev.calls[i])
        /\ PlainShapeFill(last.req) => sink = prev.calls
        /\ (MotifFill(last.req) /\ last.start = prev.start) => sink = prev.calls
        /\ MultiShapeFill(last.req) =>
              LET ms == rock_shapes[last.req.rock]
                  k == Len(shapes[ms])
                  N == Len(prev.calls)
              IN  \A i \in 1..N :
                      /\ prev.calls[i].shape = shapes[ms][((prev.start[ms] + i - 1) % k) + 1]
                      /\ sink[i].shape = shapes[ms][((prev.start[ms] + N + i - 1) % k) + 1]

\* the four-member Riolite was drawn twice over the same eight grid points:
\* the calls are the same both times
C2_Witness ==
    /\ Repeated
    /\ last.req.rock = "riolit"
    /\ Len(sink) = 8
    /\ sink = prev.calls

\* the rock name is neither a line fill nor a key of the catalog
UnknownRockName(q) == ~LineRock(q) /\ ~InCatalog(q.rock)

\* C5: a fill request whose rock name is neither a line fill nor in the catalog
\* returns without raising, prints a diagnostic, makes no draw call and moves
\* no iterator; the request made after it is processed normally (a known rock
\* is then drawn).
C5_UnknownRockSkipped ==
    /\ (last.done /\ UnknownRockName(last.req)) =>
          /\ last.err = None
          /\ last.diag = 1
          /\ sink = <<>>
          /\ cursor = last.start
    /\ (prev.done /\ UnknownRockName(prev.req) /\ last.done /\ MotifFill(last.req)) =>
          /\ last.err = None
          /\ last.start = prev.start
          /\ sink # <<>>

\* an unknown rock was skipped and the request after it drew the two-member Spai
C5_Witness ==
    /\ prev.done /\ prev.req.rock = "mramor" /\ prev.calls = <<>> /\ prev.diag = 1
    /\ last.done /\ last.req.rock = "spaj" /\ last.err = None
    /\ Len(sink) >= 2
    /\ sink[1].shape # sink[2].shape

\* C6 as claimed: a composite fill that names a known rock and an aggregate that
\* is not in the catalog is skipped without raising and without a draw call,
\* and a diagnostic is emitted.
C6_UnknownAggregateDiagnosed ==
    (last.done /\ ~LineRock(last.req) /\ InCatalog(last.req.rock) /\ UnknownAggregateIn(last.req)) =>
        /\ last.err = None
        /\ sink = <<>>
        /\ last.diag >= 1

\* the pitch of the last motif fill
LastPitch ==
    MotifPitch(last.req.canvas_unit, MotifShape(last.req), last.req.scale,
               last.req.offset_factor)

\* C10: in a motif fill every row is at a multiple of dy, the rows visited are
\* consecutive, and a row is shifted right by dx/2 if and only if its row index
\* y/dy is odd (the positions of an unshifted row are multiples of dx), whatever
\* the bounding box is.
C10_BrickRows ==
    (last.done /\ MotifFill(last.req)) =>
        LET dx_m == LastPitch[1]
            dy_m == LastPitch[2]
        IN  /\ \A i \in 1..Len(sink) :
                  LET x == sink[i].position[1]
                      y == sink[i].position[2]
                      row == PyFloorDiv(y, dy_m)
                  IN  /\ y = row * dy_m
                      /\ PyMod(x, dx_m) = (IF row % 2 = 1 THEN dx_m \div 2 ELSE 0)
            /\ \A i \in 1..(Len(sink) - 1) :
                  \/ /\ sink[i + 1].position[2] = sink[i].position[2]
                     /\ sink[i + 1].position[1] = sink[i].position[1] + dx_m
                  \/ sink[i + 1].position[2] = sink[i].position[2] + dy_m
            /\ Len(sink) > 0 => PyFloorDiv(sink[1].position[2], dy_m) % 2 = 0

\* a fill over a box with negative bounds drew a shifted row below the origin
\* and an unshifted row after it
C10_Witness ==
    /\ last.done /\ MotifFill(last.req)
    /\ last.req.bounding_box = BoxNegative
    /\ \E i, j \in 1..Len(sink) :
          /\ sink[i].position[2] = 0 - LastPitch[2]
          /\ PyMod(sink[i].position[1], LastPitch[1]) = LastPitch[1] \div 2
          /\ sink[j].position[2] = 0
          /\ PyMod(sink[j].position[1], LastPitch[1]) = 0

----------------------------------------------------------------------------
(* Claims about the vertical-line fill *)

\* the pitch of the last vertical fill: 2.0 mm for torf, 1.0 mm for prs
LastVerticalPitch ==
    VerticalPitch(last.req.canvas_unit, IF last.req.rock = "torf" THEN 2 * Unit ELSE Unit)

\* every call of the sink draws the line from (x, y0) to (x, y1) for some x
FullHeightLines ==
    \A i \in 1..Len(sink) :
        /\ sink[i].points[1][1] = sink[i].points[2][1]
        /\ sink[i].points[1][2] = last.req.bounding_box[3]
        /\ sink[i].points[2][2] = last.req.bounding_box[4]
        /\ sink[i].polygon = last.req.polygon

\* the abscissas of the lines of the sink
SinkAbscissas == {sink[i].points[1][1] : i \in 1..Len(sink)}

\* C7: the vertical-line fill (dx_mm = 2.0) of the square (0,0),(10,0),(10,10),(0,10)
\* with bounding box (0, 10, 0, 10) on a linked unit with horizontal scale 1:1000
\* makes exactly 5 lines, at x = 2, 4, 6, 8, 10, each from y = 0 to y = 10.
C7_FiveLines ==
    (/\ last.done
     /\ last.req.rock = "torf"
     /\ last.req.canvas_unit \in {LinkedUnit(1000, 100), LinkedUnit(1000, 1000)}
     /\ last.req.polygon = "Square"
     /\ last.req.bounding_box = <<0, 10 * Unit, 0, 10 * Unit>>) =>
        /\ Len(sink) = 5
        /\ \A i \in 1..5 :
               /\ sink[i].op = "draw_lines_m_inside_polygon"
               /\ sink[i].points = <<<<2 * i * Unit, 0>>, <<2 * i * Unit, 10 * Unit>>>>
               /\ sink[i].polygon = "Square"

\* the fill of the example was made
C7_Witness ==
    /\ last.done
    /\ last.req.rock = "torf"
    /\ last.req.canvas_unit = LinkedUnit(1000, 100)
    /\ last.req.bounding_box = <<0, 10 * Unit, 0, 10 * Unit>>
    /\ Len(sink) = 5
    /\ sink[5].points[1][1] = 10 * Unit

\* C8 as claimed: with pitch dx > 0 and g = x0 - (x0 mod dx), a line from (x, y0)
\* to (x, y1) is generated at every abscissa g + k*dx (k >= 0) that does not
\* exceed x1 and at no abscissa beyond x1; g <= x0 < g + dx also for negative x0.
C8_LinesFromGridStart ==
    (last.done /\ last.req.rock \in VerticalRocks) =>
        LET dx == LastVerticalPitch
            x0 == last.req.bounding_box[1]
            x1 == last.req.bounding_box[2]
            g == x0 - (x0 % dx)
        IN  /\ g <= x0 /\ x0 < g + dx
            /\ FullHeightLines
            /\ SinkAbscissas = {x \in g..x1 : (x - g) % dx = 0}

\* C8 as amended: with pitch dx > 0 and g = x0 - (x0 mod dx) (g <= x0 < g + dx,
\* also for negative x0), the walk steps before it draws: a line from (x, y0) to
\* (x, y1) is generated at exactly the abscissas g + k*dx with k >= 1 and
\* g + (k - 1)*dx < x1, in increasing order; there is no line at g itself, the
\* last line is at the first abscissa that reaches or passes x1 (it can lie
\* beyond x1 by less than dx), and there is no line at all when g >= x1.
C8_LinesAfterGridStart ==
    (last.done /\ last.req.rock \in VerticalRocks) =>
        LET dx == LastVerticalPitch
            x0 == last.req.bounding_box[1]
            x1 == last.req.bounding_box[2]
            g == x0 - (x0 % dx)
        IN  /\ g <= x0 /\ x0 < g + dx
            /\ FullHeightLines
            /\ \A i \in 1..Len(sink) : sink[i].points[1][1] = g + i * dx
            /\ SinkAbscissas = {x \in (g + 1)..(x1 + dx - 1) : (x - g) % dx = 0}
            /\ g >= x1 <=> sink = <<>>

\* a fill whose box begins at a negative, unaligned x0 and ends at an unaligned
\* x1: the first line is left of the origin and the last one lies beyond x1
C8_Witness ==
    /\ last.done /\ last.req.rock = "torf"
    /\ last.req.canvas_unit = FloatingUnit
    /\ last.req.bounding_box[1] = 0 - 70
    /\ last.req.bounding_box[2] = 50
    /\ Len(sink) = 4
    /\ sink[1].points[1][1] = 0 - 40
    /\ sink[4].points[1][1] = 80

----------------------------------------------------------------------------
(* Claims about the bounding box *)

\* the box b lies within the box c
BoxWithin(b, c) == c[1] <= b[1] /\ b[2] <= c[2] /\ c[3] <= b[3] /\ b[4] <= c[4]

\* the point p lies in the box b
InBox(p, b) == b[1] <= p[1] /\ p[1] <= b[2] /\ b[3] <= p[2] /\ p[2] <= b[4]

\* the box b contains the polygon
PolygonWithin(polygon, b) ==
    \A i \in 1..Len(PolygonPoints[polygon]) : InBox(PolygonPoints[polygon][i], b)

\* the last two requests differ in the bounding box only, and the box of
\* the later one contains the box of the earlier one, which contains the polygon
Widened ==
    /\ prev.done /\ last.done
    /\ [prev.req EXCEPT !.bounding_box = last.req.bounding_box] = last.req
    /\ prev.req.bounding_box # last.req.bounding_box
    /\ BoxWithin(prev.req.bounding_box, last.req.bounding_box)
    /\ PolygonWithin(prev.req.polygon, prev.req.bounding_box)

\* C9 as claimed: for a fixed polygon, rock, dip function and scale and boxes
\* B within B', every draw generated for B is also generated for B' with the
\* same position, the same member shape, the same angle and the same line
\* style, and the draws added by B' lie at grid points outside B (both fills
\* beginning with the iterators of the catalog in the same place).
C9_SameDrawsInWiderBox ==
    (Widened /\ prev.start = last.start) =>
        /\ \A i \in 1..Len(prev.calls) : \E j \in 1..Len(sink) : sink[j] = prev.calls[i]
        /\ MotifFill(last.req) =>
              \A j \in 1..Len(sink) :
                  (\A i \in 1..Len(prev.calls) : sink[j] # prev.calls[i]) =>
                      ~InBox(sink[j].position, prev.req.bounding_box)

\* C9 as amended: for a motif fill with a fixed polygon, rock, dip function and
\* scale and boxes B within B', every draw generated for B is also generated
\* for B' at the same position with the same angle (and target, polygon, color
\* and scale), and the positions added by B' lie outside B; the shape drawn at
\* a common position is the same when the rock is a plain Shape. It need not be
\* the same member for a MultiShape rock (the member depends on how many grid
\* points were visited before), and the segments of a diagonal fill depend on
\* the box, so neither is covered.
C9_SamePositionsInWiderBox ==
    (Widened /\ MotifFill(last.req)) =>
        /\ \A i \in 1..Len(prev.calls) :
              \E j \in 1..Len(sink) :
                  /\ SameButShape(sink[j], prev.calls[i])
                  /\ PlainShapeFill(last.req) => sink[j] = prev.calls[i]
        /\ \A j \in 1..Len(sink) :
              (\A i \in 1..Len(prev.calls) : sink[j].position # prev.calls[i].position) =>
                  ~InBox(sink[j].position, prev.req.bounding_box)

\* a plain-shape fill over the box of the polygon was followed by the same fill
\* over a box that begins lower and further left: it visited more grid points
C9_Witness ==
    /\ Widened
    /\ PlainShapeFill(last.req)
    /\ prev.req.bounding_box = BoxSmall
    /\ last.req.bounding_box[1] < 0
    /\ last.req.bounding_box[3] < 0
    /\ Len(prev.calls) > 0
    /\ Len(sink) > Len(prev.calls)

----------------------------------------------------------------------------
(* Claims about the diagonal-line fill *)

\* the grid point a diagonal line call is anchored at: the line runs from
\* (x - 50 * dx, y - 50 * dy) to (x + 50 * dx, y + 50 * dy)
RowAnchor(c) ==
    <<(c.points[1][1] + c.points[2][1]) \div 2, (c.points[1][2] + c.points[2][2]) \div 2>>

\* the last two requests were alternating diagonal fills on the same canvas unit
\* (hence with the same pitch)
TwoAlternatingFills ==
    /\ prev.done /\ last.done
    /\ prev.req.rock = "korennye_porody" /\ last.req.rock = "korennye_porody"
    /\ prev.req.canvas_unit = last.req.canvas_unit

\* C11 as claimed: in alternating diagonal fill the line style of a row is a
\* function of the grid coordinates of the row only (its row and its anchor
\* column), not of how many rows were emitted before it: two fills with the
\* same pitch that both produce the row at the same grid coordinates give it
\* the same style.
C11_StyleByGridCoordinates ==
    TwoAlternatingFills =>
        \A i \in 1..Len(prev.calls) : \A j \in 1..Len(sink) :
            RowAnchor(prev.calls[i]) = RowAnchor(sink[j]) =>
                prev.calls[i].line_type = sink[j].line_type

----------------------------------------------------------------------------
(* Claims about the angle of a motif *)

\* C12: in motif fill the angle passed to each motif draw is atan(10 * d) in
\* degrees, where d is the value of the dip function at that grid point and a
\* None result counts as d = 0: angle 0 for a dip function returning None or 0,
\* 45 for the constant 0.1, and 45 or -45 by the sign of the slope for one that
\* returns 0.1 at x >= 0 and -0.1 at x < 0.
C12_DipAngle ==
    (last.done /\ MotifFill(last.req)) =>
        \A i \in 1..Len(sink) :
            LET f == last.req.dip_function
                c == sink[i]
            IN  /\ f \in {"dip_none", "dip_zero"} => c.angle = 0
                /\ f = "dip_tenth" => c.angle = 45
                /\ f = "dip_by_x" => c.angle = (IF c.position[1] >= 0 THEN 45 ELSE 0 - 45)

\* a fill with the constant dip 0.1 drew several motifs, each at 45 degrees
C12_Witness ==
    /\ last.done /\ MotifFill(last.req)
    /\ last.req.dip_function = "dip_tenth"
    /\ Len(sink) > 1
    /\ \A i \in 1..Len(sink) : sink[i].angle = 45

----------------------------------------------------------------------------
(* Claims about Shape.draw *)

\* the emitted points of a shape drawn at the position P: P + k * R(angle) * p
\* for every template point p, in template order
Placed(shape, angle, k, P) ==
    [i \in 1..Len(ShapePoints(shape)) |->
        LET x == ShapePoints(shape)[i][1]
            y == ShapePoints(shape)[i][2]
            Rp == CASE angle = 0 -> <<x, y>>
                    [] angle = 90 -> <<0 - y, x>>
                    [] angle = 180 -> <<0 - x, 0 - y>>
                    [] angle = 0 - 90 -> <<y, 0 - x>>
        IN  <<P[1] + k * Rp[1], P[2] + k * Rp[2]>>]

\* the position in millimeters on a unit with a scale context
InMm(canvas_unit, p) ==
    <<(canvas_unit.scale_horizontal_mm * (p[1] + canvas_unit.x_offset_m)) \div Unit,
      (canvas_unit.scale_vertical_mm * (p[2] + canvas_unit.y_offset_m)) \div Unit>>

\* C13 as claimed: Shape.draw raises no error when the polygon argument is None
\* or empty, for every kind of target (plain millimeter unit, scaled unit,
\* linked unit): it makes exactly one unclipped draw_lines call carrying the
\* full transformed point sequence.
C13_NoPolygonDrawsUnclipped ==
    (drawn.done /\ drawn.args.polygon \in {"None", "Empty"}) =>
        /\ drawn.err = None
        /\ Len(sink) = 1
        /\ sink[1].op = "draw_lines"
        /\ sink[1].points =
               Placed(drawn.shape, drawn.args.angle, drawn.args.scale,
                      IF drawn.args.canvas_unit.kind = "CanvasUnitLinked"
                      THEN InMm(drawn.args.canvas_unit, drawn.args.position)
                      ELSE drawn.args.position)


\* the polygon and the points of the call a draw made, had the position and the
\* polygon been converted to millimeters / been left as they are
DrawnConverted ==
    /\ sink[1].points = Placed(drawn.shape, drawn.args.angle, drawn.args.scale,
                               InMm(drawn.args.canvas_unit, drawn.args.position))
    /\ drawn.args.polygon # "None" =>
          sink[1].polygon =
              [i \in 1..Len(PolygonArg(drawn.args.polygon)) |->
                  InMm(drawn.args.canvas_unit, PolygonArg(drawn.args.polygon)[i])]
DrawnUnconverted ==
    /\ sink[1].points = Placed(drawn.shape, drawn.args.angle, drawn.args.scale,
                               drawn.args.position)
    /\ drawn.args.polygon # "None" => sink[1].polygon = PolygonArg(drawn.args.polygon)

\* C14 as claimed: for every target that has a meters-to-millimeters scale
\* context (a CanvasUnitScaled as well as a CanvasUnitLinked) Shape.draw
\* converts the position and every polygon vertex to millimeters with the
\* target's scale() before transforming and clipping; for a target in plain
\* millimeter space no conversion is applied.
C14_ScaledTargetsConverted ==
    (drawn.done /\ drawn.err = None) =>
        IF drawn.args.canvas_unit.kind \in {"CanvasUnitScaled", "CanvasUnitLinked"}
        THEN DrawnConverted
        ELSE DrawnUnconverted

\* C14 as amended: for a CanvasUnitLinked target Shape.draw converts the
\* position and every polygon vertex to millimeters with the target's scale()
\* before transforming and clipping; for every other target, a CanvasUnitScaled
\* that is not linked included, no conversion is applied.
C14_LinkedTargetsConverted ==
    (drawn.done /\ drawn.err = None) =>
        IF drawn.args.canvas_unit.kind = "CanvasUnitLinked"
        THEN DrawnConverted
        ELSE DrawnUnconverted

\* a shape was drawn inside a polygon on a unit linked to the section, away from
\* the origin: position and polygon reached the unit in millimeters
C14_Witness ==
    /\ drawn.done /\ drawn.err = None
    /\ drawn.args.canvas_unit = CanvasUnitLinked(SectionUnit)
    /\ drawn.args.polygon = "Small"
    /\ drawn.args.position = <<2 * Unit, 0 - Unit>>
    /\ sink[1].op = "draw_lines_inside_polygon"
    /\ sink[1].polygon[3] = <<5 * Unit, 20 * Unit>>


\* the position a draw was made at, in the millimeters of its target
DrawnAt ==
    IF drawn.args.canvas_unit.kind = "CanvasUnitLinked"
    THEN InMm(drawn.args.canvas_unit, drawn.args.position)
    ELSE drawn.args.position

\* C15: Shape.draw composes rotate, then scale, then translate: each emitted
\* point equals position + scale * R(angle) * p for the template point p, in
\* template order, so the position itself is neither rotated nor scaled; with
\* angle 0 and scale 1 the emitted points are the template points shifted by
\* the position.
C15_RotateScaleTranslate ==
    (drawn.done /\ drawn.err = None) =>
        LET pts == sink[1].points
            tpl == ShapePoints(drawn.shape)
        IN  /\ Len(sink) = 1
            /\ Len(pts) = Len(tpl)
            /\ pts = Placed(drawn.shape, drawn.args.angle, drawn.args.scale, DrawnAt)
            /\ (drawn.args.angle = 0 /\ drawn.args.scale = 1) =>
                  \A i \in 1..Len(tpl) :
                      pts[i] = <<tpl[i][1] + DrawnAt[1], tpl[i][2] + DrawnAt[2]>>

\* Il was drawn at (2, -1) turned by 90 degrees at twice its size: its second
\* point (-0.5, 0.2) went to (2, -1) + 2 * (-0.2, -0.5)
C15_Witness ==
    /\ drawn.done /\ drawn.err = None
    /\ drawn.shape = "Il"
    /\ drawn.args.canvas_unit = FloatingUnit
    /\ drawn.args.angle = 90 /\ drawn.args.scale = 2
    /\ drawn.args.position = <<2 * Unit, 0 - Unit>>
    /\ sink[1].points[2] = <<2 * Unit - 8, 0 - Unit - Unit>>

----------------------------------------------------------------------------
(* Claims about the conversions and the linked unit *)

\* the unit the last conversion was made on and the factor it used
ConvertedOn == IF units.conv.on = "linked" THEN units.linked ELSE units.parent
ConvertedBy ==
    IF units.conv.trip \in {"mm_m_mm_horizontal", "m_mm_m_horizontal"}
    THEN ConvertedOn.scale_horizontal_mm
    ELSE ConvertedOn.scale_vertical_mm

C17_LinkedEqualsParent ==
    units.op = "link" =>
        /\ units.linked.scale_horizontal = units.parent.scale_horizontal
        /\ units.linked.scale_vertical = units.parent.scale_vertical
        /\ units.linked.scale_horizontal_mm = units.parent.scale_horizontal_mm
        /\ units.linked.scale_vertical_mm = units.parent.scale_vertical_mm
        /\ units.linked.x_offset_m = units.parent.x_offset_m
        /\ units.linked.y_offset_m = units.parent.y_offset_m
        /\ units.linked.origin = units.parent.origin


\* C18: a linked unit holds a snapshot, not a live link: after it is
\* constructed, any change to the parent's scales, offsets or origin (for
\* example the parent being placed on the canvas later) leaves the linked
\* unit's scale context and the results of its scale() and of its conversion
\* functions unchanged.
C18_LinkedIsSnapshot ==
    [][ (units.made /\ units'.op \in {"place", "set_scales", "set_offsets"}) =>
            /\ units'.parent # units.parent
            /\ units'.linked = units.linked
            /\ \A p \in {<<0, 0>>, <<2 * Unit, 0 - Unit>>} :
                   unit_scale(units'.linked, p) = unit_scale(units.linked, p)
            /\ \A trip \in Trips, v \in TripValues :
                   RoundTrip(units'.linked, trip, v) = RoundTrip(units.linked, trip, v) ]_vars

\* a unit was linked to a parent that was not placed yet; the parent was then
\* given other scales and placed: the linked unit still has no origin and the
\* factors of the parent it was made from
C18_Witness ==
    /\ units.made /\ units.op = "place"
    /\ units.parent.origin = <<10 * Unit, 20 * Unit>>
    /\ units.linked.origin = NoOrigin
    /\ units.parent.scale_horizontal_mm # units.linked.scale_horizontal_mm
    /\ units.linked.scale_horizontal_mm = units.source.scale_horizontal_mm

----------------------------------------------------------------------------
(* Claims about the clipped draw functions *)

\* the point p lies in the polygon of the last clipped call or on its boundary
InsideP(p) ==
    LET r == Rectangle(clip.polygon)
    IN  r[1] <= p[1] /\ p[1] <= r[2] /\ r[3] <= p[2] /\ p[2] <= r[4]

\* the point p lies less than one step of the clipping grid outside that polygon
NearP(p) ==
    LET r == Rectangle(clip.polygon)
    IN  /\ r[1] - p[1] < Unit /\ p[1] - r[2] < Unit
        /\ r[3] - p[2] < Unit /\ p[2] - r[4] < Unit

\* the points the wrapped function was called with
PassedOn == UNION {{sink[k].points[i] : i \in 1..Len(sink[k].points)} : k \in 1..Len(sink)}

EntirelyOutside ==
    LET r == Rectangle(clip.polygon)
        S == clip.points
    IN  \A i \in 1..(Len(S) - 1) :
            \/ Max(Min(S[i][1], S[i + 1][1]), r[1]) > Min(Max(S[i][1], S[i + 1][1]), r[2])
            \/ Max(Min(S[i][2], S[i + 1][2]), r[3]) > Min(Max(S[i][2], S[i + 1][2]), r[4])

\* the polyline of the last clipped call lies in the polygon
EntirelyInside == \A i \in 1..Len(clip.points) : InsideP(clip.points[i])

\* every coordinate of the polyline is a float on the clipping grid
OnGrid(S) == \A i \in 1..Len(S) : S[i][1] % Unit = 0 /\ S[i][2] % Unit = 0

\* the polyline T is S up to less than one step of the clipping grid
UpToGrid(T, S) ==
    /\ Len(T) = Len(S)
    /\ \A i \in 1..Len(S) : \A c \in 1..2 :
           T[i][c] - S[i][c] < Unit /\ S[i][c] - T[i][c] < Unit

C20_WitnessOutside == clip.done /\ EntirelyOutside /\ sink = <<>>

\* a polyline within the polygon, with every coordinate on the grid, was drawn
C20_WitnessOnGrid ==
    /\ clip.done /\ EntirelyInside /\ OnGrid(clip.points)
    /\ Len(sink) = 1 /\ sink[1].points = clip.points

----------------------------------------------------------------------------
(* Claims about Shape.__rotate__ *)

\* C21: rotating points by an angle and then by the opposite angle returns the
\* original coordinates in the original order
C21_RotateBackExact ==
    turn.done => turn.back = DoublePoints(turn.points)

\* the double v is the whole number n up to the rounding of a sum next to a
\* coordinate of size at most m
WithinTolerance(v, n, m) ==
    v[1] = n /\ Abs(v[2]) <= 2 * HalfUlp * PowerBelow(Max(1, m))

\* C21, amended: rotating points by an angle and then by the opposite angle
\* returns the original coordinates in the original order up to the rounding of
\* the doubles, and exactly when the angle is 0
C21_RotateBackWithinTolerance ==
    turn.done =>
        /\ Len(turn.back) = Len(turn.points)
        /\ \A i \in 1..Len(turn.points) : \A c \in 1..2 :
               WithinTolerance(turn.back[i][c], turn.points[i][c],
                               Max(Abs(turn.points[i][1]), Abs(turn.points[i][2])))
        /\ turn.angle = 0 => turn.back = DoublePoints(turn.points)

\* three points were rotated by 90 degrees and back, and one came back changed
C21_Witness ==
    /\ turn.done /\ turn.angle = 90 /\ Len(turn.points) = 3
    /\ turn.back # DoublePoints(turn.points)
    /\ turn.back[1] = <<Double(0), Double(0)>>

----------------------------------------------------------------------------
(* Claims about the end of a tiling pass *)

\* C22: every tiling pass runs to completion: whatever the bounding box and
\* the scale and offset_factor overrides, the fill returns normally after
\* finitely many draw calls
C22_TilingPassCompletes ==
    last.done => last.err = None

----------------------------------------------------------------------------
(* Claims about Canvas.add and Canvas.draw *)

\* the number of calls of op on the unit registered under key in the last draw
Calls(op, key) == Cardinality({i \in 1..Len(canvas.log) : canvas.log[i] = Event(op, key)})

\* the places of the calls of op in the last draw
Places(op) == {i \in 1..Len(canvas.log) : canvas.log[i].op = op}

\* the keys of the calls of op in the last draw, in the order of the calls
RECURSIVE KeysOf(_, _)
KeysOf(op, i) ==
    IF i > Len(canvas.log) THEN <<>>
    ELSE IF canvas.log[i].op = op THEN <<canvas.log[i].key>> \o KeysOf(op, i + 1)
    ELSE KeysOf(op, i + 1)

\* the keys of the first n units the last draw found, in the order they were added
KeysAdded(n) == [i \in 1..n |-> canvas.at[i].key]

\* the i-th unit the last draw found raises a CanvasException, or an exception
\* that is none, when drawn
RaisesCanvasException(i) == UnitDraw(canvas.at[i].unit) \in {"CanvasException", "CanvasError"}
RaisesOther(i) == UnitDraw(canvas.at[i].unit) # "ok" /\ ~RaisesCanvasException(i)

\* the first unit that raises an exception other than CanvasException is the i-th
FirstOther(i) == RaisesOther(i) /\ \A j \in 1..(i - 1) : ~RaisesOther(j)

\* C23: an exception other than CanvasException raised while a unit is drawn
\* leaves Canvas.draw as it is: the units before the failing one and the failing
\* one were drawn once each, the units after it are not drawn, and save_to_file
\* is not called
C23_OtherExceptionPropagates ==
    canvas.done =>
        \A i \in 1..Len(canvas.at) :
            FirstOther(i) =>
                /\ canvas.err = UnitDraw(canvas.at[i].unit)
                /\ KeysOf("__draw__", 1) = KeysAdded(i)
                /\ Places("save_to_file") = {}

\* the second of three units raised a ValueError
C23_Witness ==
    /\ canvas.done /\ Len(canvas.at) = 3 /\ FirstOther(2)
    /\ canvas.err = "ValueError"
    /\ Calls("__draw__", canvas.at[3].key) = 0

\* C27: Canvas.add never overwrites a registered unit: the registry holds one
\* entry for each add call, under distinct keys; the last add left the entries
\* before it as they were and stored the unit under the name asked for, or,
\* when that name was taken, under that name followed by one or more "+";
\* every added unit's canvas field is set and __post_add__ was called once for
\* each add of the unit
C27_AddNeverOverwrites ==
    /\ Len(canvas.units) = canvas.adds
    /\ Cardinality(Keys(canvas.units)) = Len(canvas.units)
    /\ canvas.adds > 0 =>
           LET n == Len(canvas.units)
               key == canvas.units[n].key
           IN  /\ n = Len(canvas.asked.before) + 1
               /\ SubSeq(canvas.units, 1, n - 1) = canvas.asked.before
               /\ canvas.units[n].unit = canvas.asked.unit
               /\ key[1] = canvas.asked.name[1]
               /\ IF canvas.asked.name \in Keys(canvas.asked.before)
                  THEN key[2] >= canvas.asked.name[2] + 1
                  ELSE key = canvas.asked.name
    /\ \A u \in CanvasUnits :
           /\ canvas.fields[u].post_add =
                  Cardinality({i \in 1..Len(canvas.units) : canvas.units[i].unit = u})
           /\ canvas.fields[u].canvas = (canvas.fields[u].post_add > 0)

\* a unit was added twice and a third add asked for the name the second add made
C27_Witness ==
    /\ Len(canvas.units) = 3
    /\ canvas.units[1].unit = canvas.units[2].unit
    /\ canvas.units[2].key = Name("section", 1)
    /\ canvas.asked.name = Name("section", 1)
    /\ canvas.units[3].key = Name("section", 2)

\* C28: a CanvasException raised by the drawing of a unit is contained in that
\* unit: it is logged, the unit registered next is still drawn, and when no
\* unit raises another exception every unit is drawn exactly once, in the
\* order of registration, and save_to_file is called afterwards
C28_CanvasExceptionContained ==
    canvas.done =>
        /\ \A i \in 1..Len(canvas.at) :
               RaisesCanvasException(i) /\ (\A j \in 1..i : ~RaisesOther(j)) =>
                   /\ Calls("logger.exception", canvas.at[i].key) = 1
                   /\ i < Len(canvas.at) => Calls("__draw__", canvas.at[i + 1].key) = 1
        /\ (\A j \in 1..Len(canvas.at) : ~RaisesOther(j)) =>
               /\ KeysOf("__draw__", 1) = KeysAdded(Len(canvas.at))
               /\ canvas.err = None
               /\ Places("save_to_file") = {Len(canvas.log)}

\* the first of three units raised a CanvasException and the others were drawn
C28_Witness ==
    /\ canvas.done /\ Len(canvas.at) = 3
    /\ RaisesCanvasException(1) /\ RaisesCanvasException(3) /\ ~RaisesOther(2)
    /\ KeysOf("__draw__", 1) = KeysAdded(3)
    /\ Places("save_to_file") # {}

\* C29: Canvas.draw follows a fixed order: __place__ on every registered unit,
\* then __pre_draw__ once, then the units' __draw__ in the order they were
\* added, then save_to_file once (not at all when the draw raised)
C29_DrawOrder ==
    canvas.done =>
        /\ KeysOf("__place__", 1) = KeysAdded(Len(canvas.at))
        /\ Places("__pre_draw__") = {Len(canvas.at) + 1}
        /\ \A i \in Places("__place__") : i <= Len(canvas.at)
        /\ \A i \in Places("__draw__") : i > Len(canvas.at) + 1
        /\ \E n \in 0..Len(canvas.at) : KeysOf("__draw__", 1) = KeysAdded(n)
        /\ IF canvas.err = None
           THEN /\ KeysOf("__draw__", 1) = KeysAdded(Len(canvas.at))
                /\ Places("save_to_file") = {Len(canvas.log)}
           ELSE Places("save_to_file") = {}

\* three units were placed, drawn in the order they were added, and saved
C29_Witness ==
    /\ canvas.done /\ Len(canvas.at) = 3 /\ canvas.err = None
    /\ canvas.at[1].unit # canvas.at[2].unit
    /\ KeysOf("__draw__", 1) = KeysAdded(3)
    /\ canvas.log[Len(canvas.log)].op = "save_to_file"

----------------------------------------------------------------------------
(* Claims about the fill strategy of a rock name *)

\* the calls of the sink are line calls / draws of shapes
LineCalls ==
    \A i \in 1..Len(sink) :
        sink[i].op \in {"draw_lines_inside_polygon", "draw_lines_m_inside_polygon"}
ShapeCalls == \A i \in 1..Len(sink) : sink[i].op = "Shape.draw"

\* the calls of the sink are those of a vertical-line fill with pitch dx (in
\* mm): vertical lines with no line type, each one pitch after the one before
VerticalStrategy(dx) ==
    /\ LineCalls /\ sink # <<>>
    /\ \A i \in 1..Len(sink) :
           /\ sink[i].points[1][1] = sink[i].points[2][1]
           /\ sink[i].line_type = None
    /\ \A i \in 1..(Len(sink) - 1) :
           sink[i + 1].points[1][1] - sink[i].points[1][1]
               = VerticalPitch(last.req.canvas_unit, dx)

\* the calls of the sink are those of a diagonal-line fill: slanted lines with
\* a line type, alternating from one line to the next or SOLID throughout
DiagonalStrategy(alternating) ==
    /\ LineCalls /\ sink # <<>>
    /\ \A i \in 1..Len(sink) :
           /\ sink[i].points[1][1] # sink[i].points[2][1]
           /\ sink[i].points[1][2] # sink[i].points[2][2]
           /\ sink[i].line_type \in {"SOLID", "DASH"}
    /\ IF alternating
       THEN \A i \in 1..(Len(sink) - 1) : sink[i + 1].line_type # sink[i].line_type
       ELSE \A i \in 1..Len(sink) : sink[i].line_type = "SOLID"

\* the request before the last was for the same rock on the same unit
SameRockAgain ==
    /\ prev.done /\ prev.req.rock = last.req.rock
    /\ prev.req.canvas_unit = last.req.canvas_unit

\* C24: every rock name resolves to one fill strategy: the vertical-line fill
\* (pitch 2.0 and 1.0 mm), the alternating and the non-alternating diagonal
\* fill, the motif fill for a catalog name and no fill for any other name; for
\* the line fills the aggregate, dip function, scale and offset factor have no
\* effect on the draw calls
C24_OneStrategyPerRock ==
    last.done =>
        /\ CASE last.req.rock = "torf" -> VerticalStrategy(2 * Unit)
             [] last.req.rock = "prs" -> VerticalStrategy(1 * Unit)
             [] last.req.rock = "korennye_porody" -> DiagonalStrategy(TRUE)
             [] last.req.rock \in {"slancy", "perehodnyj_sloj"} -> DiagonalStrategy(FALSE)
             [] last.req.rock \in DOMAIN rock_shapes ->
                    /\ ShapeCalls
                    /\ last.err = None /\ last.diag = 0
                           /\ (\A i \in 1..Len(last.req.aggregate.value) :
                                   last.req.aggregate.value[i] \in DOMAIN rock_shapes)
                           => sink # <<>>
             [] OTHER -> sink = <<>>
        /\ last.req.rock \in VerticalRocks \cup DiagonalRocks =>
               /\ last.err = None
               /\ SameRockAgain => sink = prev.calls

\* a line fill was asked for twice with different aggregate, dip function,
\* scale and offset factor
C24_Witness ==
    /\ last.done /\ SameRockAgain
    /\ last.req.rock = "korennye_porody"
    /\ last.req.scale # prev.req.scale
    /\ last.req.aggregate # prev.req.aggregate
    /\ last.req.dip_function # prev.req.dip_function
    /\ Len(sink) > 2

----------------------------------------------------------------------------
(* Claims about the attributes of the catalog's shapes *)

\* the number of Shape.draw calls that the MultiShape ms dispatched
MultiShapeDraws(calls, ms) ==
    Cardinality({ i \in DOMAIN calls : calls[i].op = "Shape.draw" /\ calls[i].via = ms })

\* C25: across fills and draw calls, points, size, dx_mm, dy_mm and line_width
\* of every Shape of the catalog and the member tuple of every MultiShape stay
\* as they were after construction; the iterator of a MultiShape moves by one
\* member for each MultiShape.draw on it and in no other way (a line fill or a
\* fill skipped for an unknown name moves no iterator)
C25_CatalogUnchanged ==
    [][ /\ catalog' = Catalog
        /\ \A ms \in MultiShapes :
               cursor'[ms] = (cursor[ms] + MultiShapeDraws(sink', ms)) % Len(shapes[ms]) ]_vars

\* a line fill, then a motif fill that moved an iterator, after direct draws
C25_Witness ==
    /\ prev.done /\ prev.req.rock = "torf"
    /\ last.done /\ last.req.rock = "spaj" /\ cursor # last.start
    /\ drawn.done
    /\ catalog = Catalog

----------------------------------------------------------------------------
(* Claims about drawing a table *)

\* C30: drawing a table, with or without heading, leaves the caller's list of
\* rows as it was, and a second draw of the same list draws the same cells as
\* the first
C30_TableUnchanged ==
    /\ table.draws > 0 => table.rows = table.given
    /\ table.draws > 1 /\ table.err = None => table.calls = table.first

----------------------------------------------------------------------------
(* Claims about the set-up of the clip region *)

\* C26: in one tiling pass over a polygon the clip region is set up once (one
\* conversion of the polygon for the clipper, one clipper with the polygon as
\* clip path, and one conversion to millimeters on a scaled target), however
\* many grid points the pass has
C26_SetUpOncePerPass ==
    last.done => ClipperSetUps(sink) <= 1 /\ PolygonConversions(sink) <= 1

====
